---------------------------- MODULE Spec2Model ----------------------------
(***************************************************************************)
(* A model of the resume analysis engine (src/resume_analyzer.py), of the  *)
(* HTTP server's handlers (src/main.py) and of the improver's pipeline as  *)
(* far as the handlers depend on it (src/resume_improver.py).              *)
(*                                                                         *)
(* Python dicts are TLA+ functions with a string domain: a key that is     *)
(* absent from the dict is absent from the DOMAIN, d.get(k, default) is    *)
(* Get(d, k, default) and d[k] on an absent key is a KeyError, which the   *)
(* operations report in the variable "outcome".  Python lists are          *)
(* sequences.  A text is a sequence of pieces, each piece a literal        *)
(* fragment of the document (a word, one blank, one newline, one           *)
(* punctuation character); offsets are counted in pieces.                  *)
(***************************************************************************)
EXTENDS Integers, Sequences, FiniteSets, TLC

VARIABLES
    nlp,               \* QualityAnalyzer.nlp: TRUE when the spaCy model loaded
    pc,                \* position of the running operation
    document,          \* what the PDF extractor yields for the uploaded file
    raw_text,          \* analyze_resume: raw_text
    cleaned_text,      \* analyze_resume: clean_text
    analysis_results,  \* analyze_resume: analysis_results (without the texts)
    score,             \* the dict returned by calculate_score
    recommendations,   \* the list returned by generate_recommendations
    lookup,            \* request and response of get_recommendations_by_score
    hashseed,          \* the process's string-hash seed: fixes set iteration order
    today,             \* datetime.now().year
    result,            \* the dict returned by ResumeAnalyzerAPI.analyze
    outcome,           \* "none", "ok" or the exception the operation raised
    previous,          \* what an earlier analysis of the same text returned
    response,          \* what the operation called on the finished analysis gave
    requests,          \* the HTTP requests in flight, by request id
    files,             \* the server's TEMP_DIR and OUTPUT_DIR: content by path
    clock,             \* datetime.now(), in ticks
    groq_api_key       \* TRUE when the environment sets GROQ_API_KEY

\* the state of the HTTP server
server == <<requests, files, clock, groq_api_key>>

vars == <<nlp, pc, document, raw_text, cleaned_text, analysis_results,
          score, recommendations, lookup, hashseed, today, result, outcome,
          previous, response, server>>

----------------------------------------------------------------------------
(* Bounds of the model.                                                    *)

MaxCount == 8      \* largest passive / weak / strong / metric count drawn
MaxFiller == 11    \* largest filler count drawn
MaxOver == 3       \* how far outside 0..100 a looked-up score is drawn
MaxLen == 4        \* largest number of pieces of a drawn text

----------------------------------------------------------------------------
(* Python dict and list helpers.                                           *)

EmptyDict == [k \in {} |-> FALSE]

Get(d, k, default) == IF k \in DOMAIN d THEN d[k] ELSE default

\* a server that has received no request: both directories are empty
NoRequests ==
    /\ requests = <<>>
    /\ files = EmptyDict
    /\ clock = 0
    /\ groq_api_key = TRUE

Min(a, b) == IF a < b THEN a ELSE b
Max(a, b) == IF a > b THEN a ELSE b

\* seq[:n]
Take(seq, n) == SubSeq(seq, 1, Min(n, Len(seq)))

SeqToSet(seq) == {seq[i] : i \in 1..Len(seq)}

RECURSIVE Reverse(_)
Reverse(seq) == IF seq = <<>> THEN <<>> ELSE Append(Reverse(Tail(seq)), Head(seq))

\* list(a set of strings): the members of S in the iteration order the hash
\* seed gives; base lists the vocabulary S is drawn from
ListOfSet(S, base, seed) ==
    LET inOrder == SelectSeq(base, LAMBDA x : x \in S)
    IN IF seed = 0 THEN inOrder ELSE Reverse(inOrder)

----------------------------------------------------------------------------
(* The section taxonomy and the closed vocabularies.                       *)

SECTION_NAMES ==
    <<"experience", "education", "skills", "projects", "certifications",
      "summary", "associative", "languages">>

SectionSet == {SECTION_NAMES[i] : i \in 1..Len(SECTION_NAMES)}

critical_sections == <<"experience", "education", "skills">>

\* QualityAnalyzer.WEAK_VERBS, listed in source order
WEAK_VERBS ==
    <<"was", "were", "is", "are", "been", "be", "being",
      "had", "has", "have", "having",
      "responsible for", "tasked with", "worked on", "involved in",
      "helped", "assisted", "participated">>

\* QualityAnalyzer.STRONG_ACTION_VERBS, listed in source order
STRONG_ACTION_VERBS ==
    <<"achieved", "accelerated", "accomplished", "delivered", "designed",
      "developed", "directed", "engineered", "established", "executed",
      "generated", "implemented", "improved", "increased", "initiated",
      "launched", "led", "managed", "optimized", "orchestrated",
      "pioneered", "reduced", "resolved", "spearheaded", "streamlined",
      "transformed", "built", "created", "drove", "enhanced">>

\* QualityAnalyzer.FILLER_WORDS, listed in source order
FILLER_WORDS ==
    <<"very", "really", "just", "actually", "basically", "literally",
      "obviously", "clearly", "simply", "extremely", "quite", "rather">>

----------------------------------------------------------------------------
(* The result dicts of the analyzers, as their return statements build     *)
(* them from what was found.                                               *)

\* analyze_verbs: the dict built from the passive heads and the sets of
\* terms found
verbs_result(passive_verbs, weak_verbs_found, strong_verbs_found, seed) ==
    [passive_verbs |-> passive_verbs,
     passive_count |-> Len(passive_verbs),
     weak_verbs    |-> ListOfSet(weak_verbs_found, WEAK_VERBS, seed),
     weak_count    |-> Cardinality(weak_verbs_found),
     strong_verbs  |-> ListOfSet(strong_verbs_found, STRONG_ACTION_VERBS, seed),
     strong_count  |-> Cardinality(strong_verbs_found)]

\* detect_quantifiable_achievements: the dict built from the matches
metrics_result(metrics_found) ==
    [has_metrics      |-> Len(metrics_found) > 0,
     metrics_count    |-> Len(metrics_found),
     metrics_examples |-> Take(metrics_found, 5)]

\* check_filler_words: the dict built from the filler occurrences
fillers_result(fillers_found, seed) ==
    [filler_count |-> Len(fillers_found),
     filler_words |-> ListOfSet(SeqToSet(fillers_found), FILLER_WORDS, seed),
     has_too_many |-> Len(fillers_found) > 5]

\* a length analysis that calls no text short that has no word at all
length_result_some_words(word_count, char_count) ==
    [word_count   |-> word_count,
     char_count   |-> char_count,
     is_too_long  |-> word_count > 1000,
     is_too_short |-> (0 < word_count /\ word_count < 200),
     optimal      |-> (300 <= word_count /\ word_count <= 800)]

\* a length analysis that calls a text of exactly 1000 words too long
length_result_from_1000(word_count, char_count) ==
    [word_count   |-> word_count,
     char_count   |-> char_count,
     is_too_long  |-> word_count >= 1000,
     is_too_short |-> word_count < 200,
     optimal      |-> (300 <= word_count /\ word_count <= 800)]

\* analyze_length: the dict built from the word and character counts
\* (estimated_pages, a rounded quotient that no stage reads, is left out)
length_result(word_count, char_count) ==
    [word_count   |-> word_count,
     char_count   |-> char_count,
     is_too_long  |-> word_count > 1000,
     is_too_short |-> word_count < 200,
     optimal      |-> (300 <= word_count /\ word_count <= 800)]

\* check_formatting_issues: the dict built from the list of issues
\* (caps_ratio, a rounded quotient that no stage reads, is left out)
issues_result(issues) ==
    [issues |-> issues, has_issues |-> Len(issues) > 0]

\* analyze_bullet_points: the dict built from the number of bullet matches
\* and the word counts of the bullet lines; the average is compared without
\* dividing: 10 <= sum/n <= 20 iff 10*n <= sum <= 20*n
RECURSIVE SumSeq(_)
SumSeq(s) == IF s = <<>> THEN 0 ELSE Head(s) + SumSeq(Tail(s))

bullets_result(bullet_count, bullet_line_lengths) ==
    LET n == Len(bullet_line_lengths)
        total == SumSeq(bullet_line_lengths)
    IN [bullet_count   |-> bullet_count,
        has_bullets    |-> bullet_count > 0,
        optimal_length |-> IF n = 0 THEN FALSE
                           ELSE (10 * n <= total /\ total <= 20 * n)]

----------------------------------------------------------------------------
(* Texts.  A text is a sequence of pieces; the string it stands for is the *)
(* concatenation of its pieces.  A piece is one whitespace character, one  *)
(* punctuation character or a word.  No word piece of a drawn text         *)
(* properly extends a literal of a pattern below, so a pattern matches the *)
(* string exactly where it matches the pieces.  Offsets count pieces from  *)
(* 0, as Python counts characters.                                         *)

\* the characters that \s matches
Whitespace == {" ", "\n", "\t"}

\* str.lower() of a piece (the pieces with capitals that texts are drawn from)
Lower(p) ==
    CASE p = "Education" -> "education"
      [] p = "EXPERIENCE" -> "experience"
      [] p = "Present" -> "present"
      [] p = "Was" -> "was"
      [] p = "Tunis" -> "tunis"
      [] p = "Sfax" -> "sfax"
      [] p = "Tunisia" -> "tunisia"
      [] p = "France" -> "france"
      [] p = "Morocco" -> "morocco"
      [] p = "Experience" -> "experience"
      [] OTHER -> p

LowerText(text) == [i \in 1..Len(text) |-> Lower(text[i])]

\* text[a:b]
Slice(text, a, b) == SubSeq(text, a + 1, b)

\* str.strip(): leading and trailing whitespace removed
RECURSIVE LStrip(_)
LStrip(text) ==
    IF text # <<>> /\ Head(text) \in Whitespace THEN LStrip(Tail(text)) ELSE text

Strip(text) == Reverse(LStrip(Reverse(LStrip(text))))

\* str.split(): the maximal runs of non-whitespace, each run one word
RECURSIVE SplitFrom(_, _, _)
SplitFrom(text, i, word) ==
    IF i > Len(text)
    THEN (IF word = "" THEN <<>> ELSE <<word>>)
    ELSE IF text[i] \in Whitespace
         THEN (IF word = "" THEN <<>> ELSE <<word>>) \o SplitFrom(text, i + 1, "")
         ELSE SplitFrom(text, i + 1, word \o text[i])

Split(text) == SplitFrom(text, 1, "")

\* str.split('\n'): the lines of a text
RECURSIVE SplitLinesFrom(_, _, _)
SplitLinesFrom(text, i, line) ==
    IF i > Len(text) THEN <<line>>
    ELSE IF text[i] = "\n"
         THEN <<line>> \o SplitLinesFrom(text, i + 1, <<>>)
         ELSE SplitLinesFrom(text, i + 1, Append(line, text[i]))

SplitLines(text) == SplitLinesFrom(text, 1, <<>>)

\* len(text): the number of characters
RECURSIVE CharCount(_)
CharCount(text) ==
    IF text = <<>> THEN 0 ELSE Len(Head(text)) + CharCount(Tail(text))

----------------------------------------------------------------------------
(* PDFExtractor.clean_text                                                 *)

\* the punctuation that clean_text keeps: [^\w\s\n@.\-+(),/;:] is removed
KeptPunctuation == {"@", ".", "-", "+", "(", ")", ",", "/", ";", ":"}

\* the punctuation pieces that clean_text removes
RemovedPunctuation == {"*", "#", "%", "$", "!", "&"}

\* re.sub(r'\s+', ' ', text)
RECURSIVE CollapseWhitespace(_)
CollapseWhitespace(text) ==
    IF text = <<>> THEN <<>>
    ELSE IF Head(text) \in Whitespace
         THEN <<" ">> \o CollapseWhitespace(LStrip(text))
         ELSE <<Head(text)>> \o CollapseWhitespace(Tail(text))

\* re.sub(r'[^\w\s\n@.\-+(),/;:]', '', text)
RemoveDisallowed(text) == SelectSeq(text, LAMBDA p : p \notin RemovedPunctuation)

\* the word characters of \w that are neither letters nor digits
NonAlphanumericWords == {"_"}

\* A variant that removes what is not alphanumeric, whitespace or kept
\* punctuation: unlike \w, it takes the underscore away.
RemoveNonAlphanumeric(text) ==
    SelectSeq(text, LAMBDA p : p \notin RemovedPunctuation \cup NonAlphanumericWords)

\* A variant of clean_text that collapses the whitespace after the removal.
clean_text_collapse_last(text) ==
    Strip(CollapseWhitespace(RemoveDisallowed(text)))

clean_text(text) == Strip(RemoveDisallowed(CollapseWhitespace(text)))

----------------------------------------------------------------------------
(* SectionDetector                                                         *)
(* A pattern is the list of the alternatives of its regular expression in  *)
(* the order in which the matcher tries them (an optional group is tried   *)
(* first with the group, then without); an alternative is a list of        *)
(* literals and of the elements below.  Literals are compared without      *)
(* case, as under IGNORECASE.                                              *)

BOL == "^"          \* ^ under MULTILINE
WS == "\\s+"
WS0 == "\\s*"
NUM == "\\d+"
YEAR == "\\d{4}"
NUMX == "\\d+x"
MONTH == "(?:jan|feb|...|dec)[a-z]*"

SECTION_PATTERNS ==
    [experience |->
       << << <<BOL, "professional", WS, "work", WS, "experience">>,
             <<BOL, "professional", WS, "experience">>,
             <<BOL, "work", WS, "experience">>,
             <<BOL, "experience">> >>,
          << <<BOL, "employment", WS, "history">> >>,
          << <<BOL, "work", WS, "history">> >>,
          << <<BOL, "career", WS, "history">> >>,
          << <<BOL, "expérience", WS, "professionnelle">> >> >>,
     education |->
       << << <<BOL, "educational", WS, "background">>, <<BOL, "education">> >>,
          << <<BOL, "academic", WS, "background">>,
             <<BOL, "academic", WS, "qualifications">> >>,
          << <<BOL, "qualifications">> >>,
          << <<BOL, "formation">> >> >>,
     skills |->
       << << <<BOL, "technical", WS, "skills">>, <<BOL, "skills">> >>,
          << <<BOL, "competencies">>, <<BOL, "competences">> >>,
          << <<BOL, "expertise">> >>,
          << <<BOL, "compétences">> >> >>,
     projects |->
       << << <<BOL, "academic", WS, "projects">>, <<BOL, "academic", WS, "project">> >>,
          << <<BOL, "projects">>, <<BOL, "project">> >>,
          << <<BOL, "portfolio">> >>,
          << <<BOL, "projets">> >> >>,
     certifications |->
       << << <<BOL, "certifications">>, <<BOL, "certification">> >>,
          << <<BOL, "licenses">>, <<BOL, "license">> >>,
          << <<BOL, "credentials">> >> >>,
     summary |->
       << << <<BOL, "professional", WS, "summary">>, <<BOL, "summary">> >>,
          << <<BOL, "profile">> >>,
          << <<BOL, "objective">> >>,
          << <<BOL, "about", WS, "me">> >>,
          << <<BOL, "résumé">> >> >>,
     associative |->
       << << <<BOL, "associative", WS, "experience">> >>,
          << <<BOL, "volunteer", WS, "experience">> >>,
          << <<BOL, "activities">> >> >>,
     languages |->
       << << <<BOL, "languages">>, <<BOL, "language">> >>,
          << <<BOL, "langues">>, <<BOL, "langue">> >> >>]

\* SECTION_PATTERNS.get(section_name, [])
patterns_of(section_name) ==
    IF section_name \in DOMAIN SECTION_PATTERNS
    THEN SECTION_PATTERNS[section_name] ELSE <<>>

\* the pieces that are digit strings, those of four digits, those that are
\* digits and an x, and those that end in a month's abbreviation and letters
NumberPieces == {"3", "10", "25", "2018", "2021"}
YearPieces == {"2018", "2021"}
MultiplierPieces == {"3x", "10x"}
MonthPieces == {"jan", "march", "summary"}

\* the pieces that an element of a pattern matches
PieceClass(e) ==
    CASE e = NUM -> NumberPieces
      [] e = YEAR -> YearPieces
      [] e = NUMX -> MultiplierPieces
      [] e = MONTH -> MonthPieces
      [] OTHER -> {e}

\* ^ under MULTILINE: offset i of text starts the text or follows a newline
AtLineStart(text, i) == i = 0 \/ text[i] = "\n"

\* the offset after the whitespace run that starts at offset i
RECURSIVE SkipWhitespace(_, _)
SkipWhitespace(text, i) ==
    IF i < Len(text) /\ text[i + 1] \in Whitespace
    THEN SkipWhitespace(text, i + 1) ELSE i

\* the piece at offset i is in the set S
PieceIn(text, i, S) == i < Len(text) /\ text[i + 1] \in S

\* the end offset of alternative alt matched at offset i from its element
\* k on, or -1.  A whitespace run is taken whole: no element that follows
\* one matches whitespace.
RECURSIVE MatchFrom(_, _, _, _)
MatchFrom(text, i, alt, k) ==
    IF k > Len(alt) THEN i
    ELSE LET e == alt[k]
             ok == CASE e = BOL -> AtLineStart(text, i)
                      [] e = WS  -> SkipWhitespace(text, i) > i
                      [] e = WS0 -> TRUE
                      [] OTHER   -> /\ i < Len(text)
                                    /\ Lower(text[i + 1]) \in PieceClass(e)
             next == CASE e = BOL -> i
                        [] e \in {WS, WS0} -> SkipWhitespace(text, i)
                        [] OTHER -> i + 1
         IN IF ok THEN MatchFrom(text, next, alt, k + 1) ELSE -1

\* the end offset of the pattern matched at offset i (the first alternative
\* that matches decides), or -1
RECURSIVE MatchAlternatives(_, _, _, _)
MatchAlternatives(text, i, pattern, n) ==
    IF n > Len(pattern) THEN -1
    ELSE LET end == MatchFrom(text, i, pattern[n], 1)
         IN IF end >= 0 THEN end
            ELSE MatchAlternatives(text, i, pattern, n + 1)

MatchAt(text, i, pattern) == MatchAlternatives(text, i, pattern, 1)

NoMatch == [found |-> FALSE]

\* the leftmost match of pattern that starts at offset from or later
RECURSIVE SearchFrom(_, _, _)
SearchFrom(pattern, text, from) ==
    IF from > Len(text) THEN NoMatch
    ELSE LET end == MatchAt(text, from, pattern)
         IN IF end >= 0 THEN [found |-> TRUE, start |-> from, end |-> end]
            ELSE SearchFrom(pattern, text, from + 1)

\* re.search(pattern, text, flags): the leftmost match
re_search(pattern, text) == SearchFrom(pattern, text, 0)

\* re.finditer(pattern, text): the matches from left to right, each search
\* resuming where the last match ended
RECURSIVE FindAllFrom(_, _, _)
FindAllFrom(pattern, text, from) ==
    LET m == SearchFrom(pattern, text, from)
    IN IF ~m.found THEN <<>>
       ELSE <<m>> \o FindAllFrom(pattern, text,
                                 IF m.end > m.start THEN m.end ELSE m.end + 1)

\* the string a text stands for
RECURSIVE Concat(_)
Concat(text) == IF text = <<>> THEN "" ELSE Head(text) \o Concat(Tail(text))

\* re.findall(pattern, text) of a pattern without groups: the matched strings
re_findall(pattern, text) ==
    LET ms == FindAllFrom(pattern, text, 0)
    IN [i \in 1..Len(ms) |-> Concat(Slice(text, ms[i].start, ms[i].end))]

\* a detection that tries only the first pattern of every section
detect_first_pattern(text) ==
    [section \in SectionSet |->
        re_search(SECTION_PATTERNS[section][1], text).found]

\* detect_sections: any(re.search(pattern, text) for pattern in patterns)
detect_sections(text) ==
    [section \in SectionSet |->
        \E n \in 1..Len(SECTION_PATTERNS[section]) :
            re_search(SECTION_PATTERNS[section][n], text).found]

\* the start offsets, in text[start:], of the first match of every pattern
\* of every other section
NextHeadings(text, section_name, start) ==
    {start + re_search(SECTION_PATTERNS[other][n], Slice(text, start, Len(text))).start :
        <<other, n>> \in
            {<<o, m>> \in SectionSet \X (1..5) :
                /\ o # section_name
                /\ m <= Len(SECTION_PATTERNS[o])
                /\ re_search(SECTION_PATTERNS[o][m],
                             Slice(text, start, Len(text))).found}}

SetMin(S) == CHOOSE x \in S : \A y \in S : x <= y

\* min_pos: the nearest following heading of another section, or len(text)
span_end(text, section_name, start) ==
    SetMin(NextHeadings(text, section_name, start) \cup {Len(text)})

\* A variant that takes the pattern of the section whose match comes
\* earliest in the text (the earlier-listed one among equals): its index
earliest_matching_pattern(text, section_name) ==
    LET patterns == patterns_of(section_name)
        matching == {n \in 1..Len(patterns) : re_search(patterns[n], text).found}
        at(n) == re_search(patterns[n], text).start
    IN IF matching = {} THEN 0
       ELSE CHOOSE n \in matching :
                \A m \in matching : at(n) < at(m) \/ (at(n) = at(m) /\ n <= m)

\* the first pattern of the section, in list order, that matches: its index
first_matching_pattern(text, section_name) ==
    LET patterns == patterns_of(section_name)
        matching == {n \in 1..Len(patterns) : re_search(patterns[n], text).found}
    IN IF matching = {} THEN 0 ELSE SetMin(matching)

\* extract_section_content up to the slice: whether a heading was found and
\* the offsets start and min_pos of text[start:min_pos]
section_span(text, section_name) ==
    LET n == first_matching_pattern(text, section_name)
    IN IF n = 0 THEN NoMatch
       ELSE LET start == re_search(patterns_of(section_name)[n], text).end
            IN [found |-> TRUE, start |-> start,
                end |-> span_end(text, section_name, start)]

\* extract_section_content: text[start:min_pos].strip(), or ""
extract_section_content(text, section_name) ==
    LET span == section_span(text, section_name)
    IN IF span.found THEN Strip(Slice(text, span.start, span.end)) ELSE <<>>

----------------------------------------------------------------------------
(* ContactExtractor.  An address, a profile link or a phone number is one  *)
(* piece; a text has at most one of each, between whitespace and with no   *)
(* number next to it.                                                      *)

EmailPieces == <<"a@b.co">>
PhonePieces == <<"555-123-4567">>
LinkedinPieces == <<"linkedin.com/in/a">>
GithubPieces == <<"github.com/a">>

PiecesIn(text, pieces) == SelectSeq(text, LAMBDA p : p \in SeqToSet(pieces))

\* extract_email: re.findall of the address pattern
extract_email(text) == PiecesIn(text, EmailPieces)

\* the members of a list, each once, in the order of their first occurrence
RECURSIVE Dedupe(_)
Dedupe(seq) ==
    IF seq = <<>> THEN <<>>
    ELSE <<Head(seq)>> \o Dedupe(SelectSeq(Tail(seq), LAMBDA x : x # Head(seq)))

\* the offset after the chain of numbers, one "-", "." or whitespace
\* character between two of them, that starts at offset i
RECURSIVE ChainEnd(_, _)
ChainEnd(text, i) ==
    IF /\ PieceIn(text, i + 1, Whitespace \cup {"-", "."})
       /\ PieceIn(text, i + 2, NumberPieces)
    THEN ChainEnd(text, i + 2) ELSE i + 1

\* the matches of the first phone pattern that are not one phone piece: a
\* chain of up to four numbers with five digits or more in all, and the "+"
\* before it
RECURSIVE number_chains(_, _)
number_chains(text, from) ==
    IF from >= Len(text) THEN <<>>
    ELSE IF PieceIn(text, from, NumberPieces)
         THEN LET end == ChainEnd(text, from)
                  start == IF from > 0 /\ text[from] = "+" THEN from - 1 ELSE from
              IN (IF CharCount(SelectSeq(Slice(text, from, end),
                                         LAMBDA p : p \in NumberPieces)) >= 5
                  THEN <<Concat(Slice(text, start, end))>> ELSE <<>>)
                 \o number_chains(text, end)
         ELSE number_chains(text, from + 1)

\* extract_phone: list(set(phones)) of the matches of the three patterns
extract_phone(text, seed) ==
    LET phones == PiecesIn(text, PhonePieces) \o number_chains(text, 0)
    IN ListOfSet(SeqToSet(phones), Dedupe(phones), seed)

\* extract_linkedin, extract_github: re.findall of the profile patterns
extract_linkedin(text) == PiecesIn(text, LinkedinPieces)
extract_github(text) == PiecesIn(text, GithubPieces)

\* the entries of COUNTRIES and MAJOR_CITIES that the drawn pieces spell
COUNTRIES == <<"tunisia", "morocco", "france">>
MAJOR_CITIES == <<"tunis", "sfax">>

\* str.title() of an entry
Title(name) ==
    CASE name = "tunisia" -> "Tunisia" [] name = "france" -> "France"
      [] name = "tunis" -> "Tunis" [] name = "sfax" -> "Sfax"
      [] name = "morocco" -> "Morocco"
      [] OTHER -> name

\* the pieces that are a capital followed by small letters
CapitalisedPieces ==
    {"Tunis", "Sfax", "Tunisia", "France", "Morocco", "Education", "Experience",
     "Present", "Was"}

\* the pieces the class [a-z...\s] of pattern1 runs over: whitespace, and the
\* words without a capital, a digit or punctuation
SmallPieces ==
    Whitespace \cup {"associative", "experience", "formation", "led", "was",
                     "very", "x", "tunis", "tunisia", "present", "in", "worked",
                     "with", "clients", "has"}

\* the offset after the run of pieces of S that starts at offset i
RECURSIVE SkipOver(_, _, _)
SkipOver(text, i, S) ==
    IF PieceIn(text, i, S) THEN SkipOver(text, i + 1, S) ELSE i

\* pattern1 matched at offset i: a capitalised piece and a run of small
\* pieces, "-" and ".", then the last "," or "-" that whitespace and a
\* capitalised piece follow, then that piece and a run of small pieces
pattern1_at(text, i) ==
    LET run == SkipOver(text, i + 1, SmallPieces \cup {"-", "."})
        seps == {j \in (i + 1)..run :
                    /\ PieceIn(text, j, {",", "-"})
                    /\ PieceIn(text, SkipWhitespace(text, j + 1), CapitalisedPieces)}
        sep == CHOOSE j \in seps : \A k \in seps : k <= j
        second == SkipWhitespace(text, sep + 1)
        end == SkipOver(text, second + 1, SmallPieces)
    IN IF PieceIn(text, i, CapitalisedPieces) /\ seps # {}
       THEN [found |-> TRUE, end |-> end,
             city |-> Concat(Strip(Slice(text, i, sep))),
             country |-> Concat(Strip(Slice(text, second, end)))]
       ELSE NoMatch

\* matches1 = re.findall(pattern1, text)
RECURSIVE matches1(_, _)
matches1(text, from) ==
    IF from >= Len(text) THEN <<>>
    ELSE LET m == pattern1_at(text, from)
         IN IF m.found THEN <<m>> \o matches1(text, m.end)
            ELSE matches1(text, from + 1)

\* re.search(r'\b' + name + r'\b', text, re.IGNORECASE)
word_found(text, name) ==
    \E i \in 1..Len(text) : Lower(text[i]) = name \/ text[i] = Title(name)

\* a location that looks for the bare countries before the cities
extract_location_countries_first(text, seed) ==
    LET found(names) == SelectSeq(ListOfSet(SeqToSet(names), names, seed),
                                  LAMBDA c : word_found(text, c))
    IN IF found(COUNTRIES) # <<>> THEN Title(found(COUNTRIES)[1])
       ELSE IF found(MAJOR_CITIES) # <<>> THEN Title(found(MAJOR_CITIES)[1])
       ELSE ""

\* extract_location: the first of the "City, Country" matches with a known
\* country, then of the known cities, then of the known countries
extract_location(text, seed) ==
    LET pairs == SelectSeq(matches1(text, 0),
                           LAMBDA m : \E n \in 1..Len(COUNTRIES) :
                                         m.country \in {COUNTRIES[n], Title(COUNTRIES[n])})
        cities_found == {pairs[n].city : n \in 1..Len(pairs)}
        countries_found == {pairs[n].country : n \in 1..Len(pairs)}
        cities == SelectSeq(ListOfSet(SeqToSet(MAJOR_CITIES), MAJOR_CITIES, seed),
                            LAMBDA c : word_found(text, c) /\ Title(c) \notin cities_found)
        countries == SelectSeq(ListOfSet(SeqToSet(COUNTRIES), COUNTRIES, seed),
                               LAMBDA c : word_found(text, c) /\ Title(c) \notin countries_found)
    IN IF pairs # <<>> THEN pairs[1].city \o ", " \o pairs[1].country
       ELSE IF cities # <<>> THEN Title(cities[1])
       ELSE IF countries # <<>> THEN Title(countries[1])
       ELSE ""

----------------------------------------------------------------------------
(* QualityAnalyzer.  The parser (spaCy) is outside the repository: what it *)
(* tags is stated in auxpass_heads and sentence_lengths.                   *)

\* the verbs of the two vocabularies that occur inside a piece: "verb in
\* text" is substring containment
TermsIn(p) ==
    CASE p = "been" -> {"been", "be"}
      [] p = "being" -> {"being", "be"}
      [] p = "accomplished" -> {"accomplished", "is"}
      [] p = "established" -> {"established", "is"}
      [] p = "assisted" -> {"assisted", "is"}
      [] p = "handled" -> {"led"}
      [] p \in {"this", "tunis", "tunisia"} -> {"is"}
      [] OTHER -> {p}

\* the words of a term of two words
TermWords(term) ==
    CASE term = "responsible for" -> <<"responsible", "for">>
      [] term = "tasked with" -> <<"tasked", "with">>
      [] term = "worked on" -> <<"worked", "on">>
      [] term = "involved in" -> <<"involved", "in">>
      [] OTHER -> <<term>>

\* verb in text.lower()
term_in_text(term, text) ==
    LET words == TermWords(term)
    IN IF Len(words) = 1
       THEN \E i \in 1..Len(text) : term \in TermsIn(Lower(text[i]))
       ELSE \E i \in 1..(Len(text) - 2) :
               /\ Lower(text[i]) = words[1]
               /\ text[i + 1] = " "
               /\ Lower(text[i + 2]) = words[2]

terms_found(vocabulary, text) ==
    {vocabulary[n] : n \in {m \in 1..Len(vocabulary) : term_in_text(vocabulary[m], text)}}

\* the parser's tokens with dep_ == "auxpass", by their head: a form of "be"
\* and the participle that follows it
Auxiliaries == {"was", "were", "is", "are", "been", "be", "being"}

Participles == SeqToSet(STRONG_ACTION_VERBS) \cup {"helped", "assisted", "handled"}

RECURSIVE auxpass_heads(_, _)
auxpass_heads(text, i) ==
    IF i >= Len(text) THEN <<>>
    ELSE LET head == SkipWhitespace(text, i + 1)
         IN IF /\ Lower(text[i + 1]) \in Auxiliaries
               /\ head > i + 1
               /\ head < Len(text)
               /\ Lower(text[head + 1]) \in Participles
            THEN <<Lower(text[head + 1])>> \o auxpass_heads(text, i + 1)
            ELSE auxpass_heads(text, i + 1)

\* a verb analysis that looks for the two vocabularies without the parser
analyze_verbs_unguarded(text, parser, seed) ==
    verbs_result(IF parser THEN auxpass_heads(text, 0) ELSE <<>>,
                 terms_found(WEAK_VERBS, text),
                 terms_found(STRONG_ACTION_VERBS, text), seed)

\* analyze_verbs
analyze_verbs(text, parser, seed) ==
    IF ~parser THEN EmptyDict
    ELSE verbs_result(auxpass_heads(text, 0),
                      terms_found(WEAK_VERBS, text),
                      terms_found(STRONG_ACTION_VERBS, text), seed)

\* the alternatives <<prefix, word>> and <<shorter prefix, word>> for every
\* word of a list
AlternativesOf(words, with, without) ==
    [n \in 1..(2 * Len(words)) |->
        IF n % 2 = 1 THEN Append(with, words[(n + 1) \div 2])
        ELSE Append(without, words[n \div 2])]

metrics_patterns ==
    << << <<NUM, "%">> >>,
       << <<"$", NUM>> >>,
       AlternativesOf(<<"million", "thousand", "billion", "users", "customers",
                        "clients">>, <<NUM, "+", WS0>>, <<NUM, WS0>>),
       << <<"increased", WS, "by", WS, NUM>>, <<"increased", WS, NUM>>,
          <<"decreased", WS, "by", WS, NUM>>, <<"decreased", WS, NUM>>,
          <<"improved", WS, "by", WS, NUM>>, <<"improved", WS, NUM>>,
          <<"reduced", WS, "by", WS, NUM>>, <<"reduced", WS, NUM>>,
          <<"grew", WS, "by", WS, NUM>>, <<"grew", WS, NUM>>,
          <<"saved", WS, "by", WS, NUM>>, <<"saved", WS, NUM>> >>,
       << <<NUMX>> >>,
       << <<"top", WS, NUM>> >>,
       << <<"#", NUM>> >>,
       << <<NUM, WS, "people">>, <<NUM, WS, "members">>, <<NUM, WS, "engineers">>,
          <<NUM, WS, "developers">>, <<NUM, WS, "employees">> >> >>

RECURSIVE findall_each(_, _, _)
findall_each(patterns, text, n) ==
    IF n > Len(patterns) THEN <<>>
    ELSE re_findall(patterns[n], text) \o findall_each(patterns, text, n + 1)

\* detect_quantifiable_achievements
detect_quantifiable_achievements(text) ==
    metrics_result(findall_each(metrics_patterns, text, 1))

\* the markers of the three bullet patterns: a bullet, "-" or "*", then \d+\.
\* and [a-z]\) (no text is drawn with the bullet character); a marker's
\* length in pieces, or 0
BulletMarkers == {"-", "*"}
SmallLetters == {"a", "b", "x"}

marker_length(text, i, kind) ==
    CASE kind = 1 -> IF PieceIn(text, i, BulletMarkers) THEN 1 ELSE 0
      [] kind = 2 -> IF PieceIn(text, i, NumberPieces) /\ PieceIn(text, i + 1, {"."})
                     THEN 2 ELSE 0
      [] kind = 3 -> IF PieceIn(text, i, SmallLetters) /\ PieceIn(text, i + 1, {")"})
                     THEN 2 ELSE 0

\* the offset of the end of the line that holds offset i
RECURSIVE LineEnd(_, _)
LineEnd(text, i) ==
    IF i < Len(text) /\ text[i + 1] # "\n" THEN LineEnd(text, i + 1) ELSE i

\* \s*.+ (least = 0) or \s+.+ (least = 1) matched at offset m: the whitespace
\* run gives back what .+ needs, one character that is not a newline
rest_of_bullet(text, m, least) ==
    LET stops == {k \in (m + least)..SkipWhitespace(text, m) :
                     k < Len(text) /\ text[k + 1] # "\n"}
    IN IF stops = {} THEN -1
       ELSE LineEnd(text, CHOOSE k \in stops : \A j \in stops : j <= k)

\* the end offset of bullet pattern kind matched at offset i, or -1
bullet_match(text, i, kind) ==
    LET marker == SkipWhitespace(text, i)
        after == marker + marker_length(text, marker, kind)
    IN IF AtLineStart(text, i) /\ after > marker
       THEN rest_of_bullet(text, after, IF kind = 1 THEN 0 ELSE 1)
       ELSE -1

\* len(re.findall(pattern, text, re.MULTILINE)) for bullet pattern kind
RECURSIVE bullets_found(_, _, _)
bullets_found(text, from, kind) ==
    IF from > Len(text) THEN 0
    ELSE IF bullet_match(text, from, kind) >= 0
         THEN 1 + bullets_found(text, bullet_match(text, from, kind), kind)
         ELSE bullets_found(text, from + 1, kind)

\* any(re.match(p, line.strip()) for p in bullet_patterns)
is_bullet_line(line) ==
    \E kind \in 1..3 : bullet_match(Strip(line), 0, kind) >= 0

\* analyze_bullet_points
analyze_bullet_points(text) ==
    LET bullet_lines == SelectSeq(SplitLines(text), is_bullet_line)
    IN bullets_result(bullets_found(text, 0, 1) + bullets_found(text, 0, 2)
                          + bullets_found(text, 0, 3),
                      [n \in 1..Len(bullet_lines) |-> Len(Split(bullet_lines[n]))])

\* check_filler_words
check_filler_words(text, seed) ==
    fillers_result(SelectSeq(Split(LowerText(text)),
                             LAMBDA word : word \in SeqToSet(FILLER_WORDS)), seed)

\* the parser's sentences, by their numbers of tokens: a sentence ends with
\* a full stop or with the text, a token is a piece that is not whitespace
RECURSIVE sentence_lengths(_, _)
sentence_lengths(text, tokens) ==
    IF text = <<>> THEN (IF tokens = 0 THEN <<>> ELSE <<tokens>>)
    ELSE IF Head(text) = "."
         THEN <<tokens + 1>> \o sentence_lengths(Tail(text), 0)
         ELSE sentence_lengths(Tail(text),
                               IF Head(text) \in Whitespace THEN tokens ELSE tokens + 1)

\* analyze_sentence_structure: the dict built from the sentences
\* (avg_sentence_length, a rounded quotient that no stage reads, is left out)
sentences_result(lengths) ==
    LET long == SelectSeq(lengths, LAMBDA n : n > 30)
    IN [sentence_count |-> Len(lengths),
        long_sentences_count |-> Len(long),
        has_long_sentences |-> Len(long) > 0]

analyze_sentence_structure(text, parser) ==
    IF ~parser THEN EmptyDict ELSE sentences_result(sentence_lengths(text, 0))

----------------------------------------------------------------------------
(* FormatAnalyzer                                                          *)

\* analyze_length
analyze_length(text) == length_result(Len(Split(text)), CharCount(text))

\* the number of capital letters of a piece
UpperCount(p) ==
    CASE p \in CapitalisedPieces -> 1
      [] p = "EXPERIENCE" -> 10
      [] OTHER -> 0

RECURSIVE UpperTotal(_)
UpperTotal(text) ==
    IF text = <<>> THEN 0 ELSE UpperCount(Head(text)) + UpperTotal(Tail(text))

date_patterns ==
    << << <<YEAR, WS0, "-", WS0, YEAR>> >>,
       << <<YEAR, WS0, "-", WS0, "present">>, <<YEAR, WS0, "-", WS0, "current">> >>,
       << <<MONTH, WS, YEAR>> >> >>

\* check_formatting_issues: caps_ratio > 0.3 is compared without dividing
check_formatting_issues(text) ==
    LET caps == text # <<>> /\ 10 * UpperTotal(text) > 3 * CharCount(text)
        spaces == \E i \in 1..(Len(text) - 2) :
                      {text[i], text[i + 1], text[i + 2]} \subseteq Whitespace
        structure == \E i \in 1..Len(text) :
                         text[i] = "\n" /\ CharCount(SubSeq(text, 1, i - 1)) < 200
        has_dates == \E n \in 1..Len(date_patterns) :
                         re_search(date_patterns[n], text).found
    IN issues_result(
           (IF caps THEN <<"Trop de texte en MAJUSCULES">> ELSE <<>>)
        \o (IF spaces THEN <<"Espaces multiples détectés">> ELSE <<>>)
        \o (IF ~structure THEN <<"Manque de structure/paragraphes">> ELSE <<>>)
        \o (IF ~has_dates
            THEN <<"Dates d'expérience manquantes ou mal formatées">> ELSE <<>>))

\* int() of a year
YearValue(p) == IF p = "2018" THEN 2018 ELSE 2021

date_range_pattern ==
    << <<YEAR, WS0, "-", WS0, YEAR>>,
       <<YEAR, WS0, "-", WS0, "present">>, <<YEAR, WS0, "-", WS0, "current">> >>

\* a duration that counts the closed ranges only
extract_experience_duration_closed(text, this_year) ==
    LET ranges == SelectSeq(FindAllFrom(date_range_pattern, text, 0),
                            LAMBDA m : text[m.end] \in YearPieces)
        experiences ==
            [n \in 1..Len(ranges) |->
                [start |-> text[ranges[n].start + 1],
                 end |-> text[ranges[n].end],
                 duration_years |-> YearValue(text[ranges[n].end])
                                        - YearValue(text[ranges[n].start + 1])]]
    IN [total_experience_years |->
            SumSeq([n \in 1..Len(experiences) |-> experiences[n].duration_years]),
        number_of_positions |-> Len(experiences),
        experiences |-> experiences]

\* extract_experience_duration, called in the year this_year
extract_experience_duration(text, this_year) ==
    LET ranges == FindAllFrom(date_range_pattern, text, 0)
        start(m) == text[m.start + 1]
        end(m) == IF text[m.end] \in YearPieces THEN text[m.end] ELSE ""
        experiences ==
            [n \in 1..Len(ranges) |->
                [start |-> start(ranges[n]),
                 end |-> IF end(ranges[n]) # "" THEN end(ranges[n]) ELSE "Present",
                 duration_years |->
                     (IF end(ranges[n]) # "" THEN YearValue(end(ranges[n])) ELSE this_year)
                         - YearValue(start(ranges[n]))]]
    IN [total_experience_years |->
            SumSeq([n \in 1..Len(experiences) |-> experiences[n].duration_years]),
        number_of_positions |-> Len(experiences),
        experiences |-> experiences]

----------------------------------------------------------------------------
(* ResumeScorer.calculate_score                                            *)

\* 1. contact information
contact_score(contacts) ==
      (IF Len(Get(contacts, "emails", <<>>)) > 0 THEN 3 ELSE 0)
    + (IF Len(Get(contacts, "phones", <<>>)) > 0 THEN 2 ELSE 0)
    + (IF Len(Get(contacts, "linkedin", <<>>)) > 0 THEN 3 ELSE 0)
    + (IF Len(Get(contacts, "github", <<>>)) > 0 THEN 2 ELSE 0)
    + (IF Get(contacts, "location", "") # "" THEN 2 ELSE 0)

\* 2. sections: 3 points per detected section, at most 15
section_score_lowpoints(sections) ==
    Min(2 * Cardinality({s \in DOMAIN sections : sections[s]}), 15)

section_score(sections) ==
    Min(3 * Cardinality({s \in DOMAIN sections : sections[s]}), 15)

\* A variant of the verb score with one cap of 10 on the two penalties
\* taken together.
verb_score_joint_penalty(verbs) ==
      Min(Get(verbs, "strong_count", 0) * 2, 15)
    - Min(Get(verbs, "passive_count", 0) * 2 + Get(verbs, "weak_count", 0), 10)

\* 3. verb quality, before the floor at 0
verb_score(verbs) ==
      0
    - Min(Get(verbs, "passive_count", 0) * 2, 10)
    - Min(Get(verbs, "weak_count", 0), 5)
    + Min(Get(verbs, "strong_count", 0) * 2, 15)

\* 4. quantifiable achievements
metrics_score(metrics) ==
    IF Get(metrics, "has_metrics", FALSE)
    THEN Min(Get(metrics, "metrics_count", 0) * 4, 20)
    ELSE 0

\* 5. format and structure, before the floor at 0
format_score(format_analysis) ==
      15
    - (IF Get(format_analysis, "is_too_long", FALSE)
          \/ Get(format_analysis, "is_too_short", FALSE) THEN 5 ELSE 0)
    - (IF Get(Get(format_analysis, "formatting_issues", EmptyDict),
              "has_issues", FALSE) THEN 3 ELSE 0)

\* 6. bullet points
bullet_score(bullets) ==
      (IF Get(bullets, "has_bullets", FALSE) THEN 5 ELSE 0)
    + (IF Get(bullets, "optimal_length", FALSE) THEN 5 ELSE 0)

\* 7. filler words
filler_score(fillers) == 10 - Min(Get(fillers, "filler_count", 0), 10)

\* the quality level of a final score
score_level(final_score) ==
    IF final_score >= 80 THEN "Excellent"
    ELSE IF final_score >= 60 THEN "Bon"
    ELSE IF final_score >= 40 THEN "Moyen"
    ELSE "À améliorer"

\* the breakdown dict, in the order the categories are scored
score_breakdown(a) ==
    [contact_info  |-> contact_score(Get(a, "contacts", EmptyDict)),
     sections      |-> section_score(Get(a, "sections", EmptyDict)),
     verb_quality  |-> Max(0, verb_score(Get(a, "verb_analysis", EmptyDict))),
     quantifiable_achievements |-> metrics_score(Get(a, "metrics", EmptyDict)),
     format        |-> Max(0, format_score(Get(a, "format", EmptyDict))),
     bullet_points |-> bullet_score(Get(a, "bullets", EmptyDict)),
     language_quality |-> filler_score(Get(a, "fillers", EmptyDict))]

BreakdownSum(b) ==
    b.contact_info + b.sections + b.verb_quality
    + b.quantifiable_achievements + b.format + b.bullet_points
    + b.language_quality

\* the scorer with its floors and its final clamp left out
calculate_score_unclamped(a) ==
    LET b == [score_breakdown(a) EXCEPT
                !.verb_quality = verb_score(Get(a, "verb_analysis", EmptyDict)),
                !.format = format_score(Get(a, "format", EmptyDict))]
    IN [total_score |-> BreakdownSum(b),
        level       |-> score_level(BreakdownSum(b)),
        breakdown   |-> b]

calculate_score(a) ==
    LET breakdown == score_breakdown(a)
        final_score == Min(100, Max(0, BreakdownSum(breakdown)))
    IN [total_score |-> final_score,
        level       |-> score_level(final_score),
        breakdown   |-> breakdown]

----------------------------------------------------------------------------
(* RecommendationEngine.generate_recommendations                           *)
(* An entry keeps the priority, the category and the issue; the number     *)
(* or the words that the code formats into its message are kept as fields. *)

priority_order(p) ==
    CASE p = "HIGH" -> 0 [] p = "MEDIUM" -> 1 [] p = "LOW" -> 2

\* a passive-verb rule that already fires at 3 passive verbs
passive_rule_fires_at_three(verbs) == Get(verbs, "passive_count", 0) >= 3

\* if verbs.get('passive_count', 0) > 3
passive_rule_fires(verbs) == Get(verbs, "passive_count", 0) > 3

\* the entries in the order in which the rules append them
rule_entries(a) ==
    LET contacts == Get(a, "contacts", EmptyDict)
        sections == Get(a, "sections", EmptyDict)
        verbs    == Get(a, "verb_analysis", EmptyDict)
        metrics  == Get(a, "metrics", EmptyDict)
        format_analysis == Get(a, "format", EmptyDict)
        fillers  == Get(a, "fillers", EmptyDict)
        bullets  == Get(a, "bullets", EmptyDict)
        missing(section) ==
            IF ~Get(sections, section, FALSE)
            THEN <<[priority |-> "HIGH", category |-> "Structure",
                    issue |-> "Section " \o section \o " manquante"]>>
            ELSE <<>>
    IN    (IF Len(Get(contacts, "emails", <<>>)) = 0
           THEN <<[priority |-> "HIGH", category |-> "Contact",
                   issue |-> "Email manquant"]>>
           ELSE <<>>)
       \o (IF Len(Get(contacts, "linkedin", <<>>)) = 0
           THEN <<[priority |-> "MEDIUM", category |-> "Contact",
                   issue |-> "Profil LinkedIn manquant"]>>
           ELSE <<>>)
       \o missing(critical_sections[1])
       \o missing(critical_sections[2])
       \o missing(critical_sections[3])
       \o (IF passive_rule_fires(verbs)
           THEN <<[priority |-> "HIGH", category |-> "Contenu",
                   issue |-> "verbes passifs détectés",
                   count |-> verbs["passive_count"],
                   examples |-> Take(Get(verbs, "passive_verbs", <<>>), 3)]>>
           ELSE <<>>)
       \o (IF Get(verbs, "strong_count", 0) < 5
           THEN <<[priority |-> "MEDIUM", category |-> "Contenu",
                   issue |-> "Peu de verbes d'action forts"]>>
           ELSE <<>>)
       \o (IF ~Get(metrics, "has_metrics", FALSE)
              \/ Get(metrics, "metrics_count", 0) < 3
           THEN <<[priority |-> "HIGH", category |-> "Impact",
                   issue |-> "Manque de résultats quantifiables"]>>
           ELSE <<>>)
       \o (IF Get(format_analysis, "is_too_long", FALSE)
           THEN <<[priority |-> "MEDIUM", category |-> "Format",
                   issue |-> "CV trop long",
                   count |-> format_analysis["word_count"]]>>
           ELSE <<>>)
       \o (IF Get(fillers, "has_too_many", FALSE)
           THEN <<[priority |-> "LOW", category |-> "Style",
                   issue |-> "Mots de remplissage excessifs",
                   examples |-> Take(Get(fillers, "filler_words", <<>>), 5)]>>
           ELSE <<>>)
       \o (IF ~Get(bullets, "has_bullets", FALSE)
           THEN <<[priority |-> "MEDIUM", category |-> "Format",
                   issue |-> "Manque de bullet points"]>>
           ELSE <<>>)

\* the rule for a too long document reads format_analysis["word_count"]
recommendations_raise(a) ==
    LET format_analysis == Get(a, "format", EmptyDict)
    IN Get(format_analysis, "is_too_long", FALSE)
       /\ "word_count" \notin DOMAIN format_analysis

\* list.sort(key = priority_order) is a stable sort: an entry is placed
\* behind every entry whose key is not larger
RECURSIVE InsertStable(_, _)
InsertStable(x, sorted) ==
    IF sorted = <<>> THEN <<x>>
    ELSE IF priority_order(Head(sorted).priority) <= priority_order(x.priority)
         THEN <<Head(sorted)>> \o InsertStable(x, Tail(sorted))
         ELSE <<x>> \o sorted

\* a sort that places an entry before the entries of equal key
RECURSIVE InsertBeforeEqual(_, _)
InsertBeforeEqual(x, sorted) ==
    IF sorted = <<>> THEN <<x>>
    ELSE IF priority_order(Head(sorted).priority) < priority_order(x.priority)
         THEN <<Head(sorted)>> \o InsertBeforeEqual(x, Tail(sorted))
         ELSE <<x>> \o sorted

RECURSIVE SortUnstable(_)
SortUnstable(recs) ==
    IF recs = <<>> THEN <<>>
    ELSE InsertBeforeEqual(recs[Len(recs)],
                           SortUnstable(SubSeq(recs, 1, Len(recs) - 1)))

RECURSIVE sort_by_priority(_)
sort_by_priority(recs) ==
    IF recs = <<>> THEN <<>>
    ELSE InsertStable(recs[Len(recs)],
                      sort_by_priority(SubSeq(recs, 1, Len(recs) - 1)))

generate_recommendations(a) == sort_by_priority(rule_entries(a))

----------------------------------------------------------------------------
(* main.py: get_recommendations_by_score                                   *)

\* an endpoint whose first threshold is strict
lookup_level_strict(s) ==
    IF s > 80 THEN "Excellent"
    ELSE IF s >= 60 THEN "Bon"
    ELSE IF s >= 40 THEN "Moyen"
    ELSE "À améliorer"

\* the level the endpoint answers for a score it accepts
lookup_level(s) ==
    IF s >= 80 THEN "Excellent"
    ELSE IF s >= 60 THEN "Bon"
    ELSE IF s >= 40 THEN "Moyen"
    ELSE "À améliorer"

\* the number of tips the endpoint lists for a score it accepts
lookup_tips(s) ==
    IF s >= 80 THEN 3 ELSE IF s >= 60 THEN 3 ELSE IF s >= 40 THEN 4 ELSE 5

\* a lookup that rejects the two boundary scores as well
get_recommendations_by_score_open(s) ==
    IF s <= 0 \/ s >= 100
    THEN [status |-> 400, score |-> s]
    ELSE [status |-> 200, score |-> s, level |-> lookup_level(s),
          tips |-> lookup_tips(s)]

\* GET /api/v1/recommendations/{score}: 400, or the level and the tips
get_recommendations_by_score(s) ==
    IF s < 0 \/ s > 100
    THEN [status |-> 400, score |-> s]
    ELSE [status |-> 200, score |-> s, level |-> lookup_level(s),
          tips |-> lookup_tips(s)]

----------------------------------------------------------------------------
(* Analyzer outputs handed to the scorer and to the recommendation engine. *)
(* A sub-result is given as a sequence: <<d>> for the dict d, <<>> when    *)
(* the key is missing from analysis_results.                               *)

Analysis(opts) ==
    [k \in {key \in DOMAIN opts : Len(opts[key]) = 1} |-> opts[k][1]]

Mk(c, s, v, m, f, b, fl) ==
    Analysis([contacts |-> c, sections |-> s, verb_analysis |-> v,
              metrics |-> m, format |-> f, bullets |-> b, fillers |-> fl])

\* extract_all_contacts: the dict of the five extractors' results
contacts_result(emails, phones, location, linkedin, github) ==
    [emails |-> emails, phones |-> phones, location |-> location,
     linkedin |-> linkedin, github |-> github]

\* analyze_resume: 'format': {**length_analysis, 'formatting_issues': ...}
format_result(length_analysis, formatting_issues) ==
    [k \in DOMAIN length_analysis \cup {"formatting_issues"} |->
        IF k = "formatting_issues" THEN formatting_issues
        ELSE length_analysis[k]]

\* detect_sections' dict for a set of detected sections
sections_result(detected) == [s \in SectionSet |-> s \in detected]

ContactsDrawn ==
    {contacts_result(e, p, l, li, g) :
        e \in {<<>>, <<"a@b.co">>}, p \in {<<>>, <<"555-123-4567">>},
        l \in {"", "Tunis"}, li \in {<<>>, <<"linkedin.com/in/a">>},
        g \in {<<>>, <<"github.com/a">>}}

SectionsDrawn == {sections_result(d) : d \in SUBSET SectionSet}

VerbsWith(passive, weak, strong) ==
    verbs_result([i \in 1..passive |-> STRONG_ACTION_VERBS[i]],
                 {WEAK_VERBS[i] : i \in 1..weak},
                 {STRONG_ACTION_VERBS[i] : i \in 1..strong}, 0)

VerbsDrawn ==
    {VerbsWith(p, w, st) :
        p \in 0..MaxCount, w \in 0..MaxCount, st \in 0..MaxCount}

MetricsWith(n) == metrics_result([i \in 1..n |-> "10%"])

MetricsDrawn == {MetricsWith(n) : n \in 0..MaxCount}

WordCountsDrawn == {0, 199, 200, 299, 300, 500, 800, 801, 1000, 1001}

FormatWith(words, issues) ==
    format_result(length_result(words, 6 * words), issues_result(issues))

FormatDrawn ==
    {FormatWith(w, i) :
        w \in WordCountsDrawn,
        i \in {<<>>, <<"Manque de structure/paragraphes">>}}

BulletsDrawn ==
    {bullets_result(0, <<>>), bullets_result(2, <<5, 7>>),
     bullets_result(2, <<12, 14>>), bullets_result(1, <<>>),
     [has_bullets |-> FALSE, optimal_length |-> TRUE]}

FillersWith(n) ==
    fillers_result([i \in 1..n |-> FILLER_WORDS[((i - 1) % Len(FILLER_WORDS)) + 1]], 0)

FillersDrawn == {FillersWith(n) : n \in 0..MaxFiller}

\* the document of the scoring example: one email, experience and
\* education, 6 strong verbs, 4 metrics, 500 words, optimal bullets
ExampleContacts == contacts_result(<<"a@b.co">>, <<>>, "", <<>>, <<>>)
ExampleSections == sections_result({"experience", "education"})
ExampleVerbs == VerbsWith(0, 0, 6)
ExampleMetrics == MetricsWith(4)
ExampleFormat == FormatWith(500, <<>>)
ExampleBullets == bullets_result(2, <<12, 14>>)
ExampleFillers == FillersWith(0)

ExampleAnalysis ==
    Mk(<<ExampleContacts>>, <<ExampleSections>>, <<ExampleVerbs>>,
       <<ExampleMetrics>>, <<ExampleFormat>>, <<ExampleBullets>>,
       <<ExampleFillers>>)

\* every sub-result missing, worst or best, in every combination
WorstBest(worst, best) == {<<>>, <<worst>>, <<best>>}

CornerInputs ==
    {Mk(c, s, v, m, f, b, fl) :
        c \in WorstBest(contacts_result(<<>>, <<>>, "", <<>>, <<>>),
                        contacts_result(<<"a@b.co">>, <<"555-123-4567">>, "Tunis",
                                        <<"linkedin.com/in/a">>, <<"github.com/a">>)),
        s \in WorstBest(sections_result({}), sections_result(SectionSet)),
        v \in WorstBest(VerbsWith(MaxCount, MaxCount, 0), VerbsWith(0, 0, MaxCount)),
        m \in WorstBest(MetricsWith(0), MetricsWith(MaxCount)),
        f \in WorstBest(FormatWith(1001, <<"Manque de structure/paragraphes">>),
                        FormatWith(500, <<>>)),
        b \in WorstBest(bullets_result(0, <<>>), bullets_result(2, <<12, 14>>)),
        fl \in WorstBest(FillersWith(MaxFiller), FillersWith(0))}

\* the example document with one sub-result replaced by each drawn value
OneChangedInputs ==
    LET E == [contacts |-> <<ExampleContacts>>, sections |-> <<ExampleSections>>,
              verb_analysis |-> <<ExampleVerbs>>, metrics |-> <<ExampleMetrics>>,
              format |-> <<ExampleFormat>>, bullets |-> <<ExampleBullets>>,
              fillers |-> <<ExampleFillers>>]
    IN    {Analysis([E EXCEPT !.contacts = <<x>>]) : x \in ContactsDrawn}
     \cup {Analysis([E EXCEPT !.sections = <<x>>]) : x \in SectionsDrawn}
     \cup {Analysis([E EXCEPT !.verb_analysis = <<x>>]) : x \in VerbsDrawn}
     \cup {Analysis([E EXCEPT !.metrics = <<x>>]) : x \in MetricsDrawn}
     \cup {Analysis([E EXCEPT !.format = <<x>>]) : x \in FormatDrawn}
     \cup {Analysis([E EXCEPT !.bullets = <<x>>]) : x \in BulletsDrawn}
     \cup {Analysis([E EXCEPT !.fillers = <<x>>]) : x \in FillersDrawn}

\* every combination of the conditions the recommendation rules test
RuleInputs ==
    {Mk(<<contacts_result(e, <<>>, "", li, <<>>)>>,
        <<sections_result(d \cup {"projects"})>>,
        <<VerbsWith(p, 1, st)>>, <<MetricsWith(m)>>,
        <<FormatWith(w, <<>>)>>, <<b>>, <<FillersWith(fl)>>) :
        e \in {<<>>, <<"a@b.co">>}, li \in {<<>>, <<"linkedin.com/in/a">>},
        d \in SUBSET SeqToSet(critical_sections),
        p \in {3, 4}, st \in {4, 5}, m \in {2, 3}, w \in {1000, 1001},
        b \in {bullets_result(0, <<>>), bullets_result(2, <<5, 7>>)},
        fl \in {5, 6}}

AnalysisInputs == CornerInputs \cup OneChangedInputs \cup RuleInputs

----------------------------------------------------------------------------
(* The operations on a compiled analysis.                                  *)

\* A variant of the scoring step that stores the score in the dict it was
\* given.
CalculateScore_in_place ==
    /\ pc = "compiled"
    /\ score' = calculate_score(analysis_results)
    /\ analysis_results' =
           [k \in DOMAIN analysis_results \cup {"score"} |->
               IF k = "score" THEN calculate_score(analysis_results)
               ELSE analysis_results[k]]
    /\ pc' = "scored"
    /\ UNCHANGED <<previous, response, server>>
    /\ UNCHANGED <<nlp, document, raw_text, cleaned_text,
                   recommendations, lookup, hashseed, today, result, outcome>>

\* score = self.scorer.calculate_score(analysis_results)
CalculateScore ==
    /\ pc = "compiled"
    /\ score' = calculate_score(analysis_results)
    /\ pc' = "scored"
    /\ UNCHANGED <<previous, response, server>>
    /\ UNCHANGED <<nlp, document, raw_text, cleaned_text, analysis_results,
                   recommendations, lookup, hashseed, today, result, outcome>>

\* recommendations = self.recommendation_engine.generate_recommendations(...)
GenerateRecommendations ==
    /\ pc = "scored"
    /\ IF recommendations_raise(analysis_results)
       THEN /\ outcome' = "KeyError"
            /\ pc' = "raised"
            /\ UNCHANGED recommendations
       ELSE /\ recommendations' = generate_recommendations(analysis_results)
            /\ pc' = "recommended"
            /\ UNCHANGED outcome
    /\ UNCHANGED <<previous, response, server>>
    /\ UNCHANGED <<nlp, document, raw_text, cleaned_text, analysis_results,
                   score, lookup, hashseed, today, result>>

\* the years in which the operations are called
YearsOfCall == {2026}

\* the scorer and the recommendation engine on drawn analyzer outputs
InitScore ==
    /\ nlp = TRUE
    /\ hashseed = 0
    /\ pc = "compiled"
    /\ document = <<>>
    /\ raw_text = <<>>
    /\ cleaned_text = <<>>
    /\ analysis_results \in AnalysisInputs
    /\ score = EmptyDict
    /\ recommendations = <<>>
    /\ lookup = EmptyDict
    /\ today \in YearsOfCall
    /\ result = EmptyDict
    /\ outcome = "none"
    /\ previous = EmptyDict
    /\ response = EmptyDict
    /\ NoRequests

NextScore == CalculateScore \/ GenerateRecommendations

SpecScore == InitScore /\ [][NextScore]_vars

----------------------------------------------------------------------------
(* The level of every score, by the scorer and by the lookup endpoint.     *)

\* GET /api/v1/recommendations/{score}
LookupScore ==
    /\ pc = "level"
    /\ "status" \notin DOMAIN lookup
    /\ lookup' = get_recommendations_by_score(lookup.score)
    /\ UNCHANGED <<previous, response, server>>
    /\ UNCHANGED <<nlp, pc, document, raw_text, cleaned_text, analysis_results,
                   score, recommendations, hashseed, today, result, outcome>>

\* the scorer's level for a final score: a final score is within 0..100
ScorerLevel ==
    /\ pc = "level"
    /\ "level" \notin DOMAIN score
    /\ lookup.score \in 0..100
    /\ score' = [total_score |-> lookup.score,
                 level |-> score_level(lookup.score)]
    /\ UNCHANGED <<previous, response, server>>
    /\ UNCHANGED <<nlp, pc, document, raw_text, cleaned_text, analysis_results,
                   recommendations, lookup, hashseed, today, result, outcome>>

InitLevel ==
    /\ nlp = TRUE
    /\ hashseed = 0
    /\ pc = "level"
    /\ document = <<>>
    /\ raw_text = <<>>
    /\ cleaned_text = <<>>
    /\ analysis_results = EmptyDict
    /\ score = EmptyDict
    /\ recommendations = <<>>
    /\ \E s \in (0 - MaxOver)..(100 + MaxOver) : lookup = [score |-> s]
    /\ today \in YearsOfCall
    /\ result = EmptyDict
    /\ outcome = "none"
    /\ previous = EmptyDict
    /\ response = EmptyDict
    /\ NoRequests

NextLevel == LookupScore \/ ScorerLevel

SpecLevel == InitLevel /\ [][NextLevel]_vars

----------------------------------------------------------------------------
(* ResumeAnalyzer.analyze_resume and ResumeAnalyzerAPI.analyze on an       *)
(* uploaded document.                                                      *)

\* extract_all_contacts
extract_all_contacts(text, seed) ==
    contacts_result(extract_email(text), extract_phone(text, seed),
                    extract_location(text, seed), extract_linkedin(text),
                    extract_github(text))

\* A variant of the analysis that checks the formatting of the raw text.
compile_results_raw_format(raw, clean, parser, seed, year) ==
    LET experience_text == extract_section_content(raw, "experience")
    IN [contacts |-> extract_all_contacts(clean, seed),
        sections |-> detect_sections(raw),
        verb_analysis |->
            analyze_verbs(IF experience_text # <<>> THEN experience_text ELSE clean,
                          parser, seed),
        metrics |-> detect_quantifiable_achievements(clean),
        bullets |-> analyze_bullet_points(raw),
        fillers |-> check_filler_words(clean, seed),
        sentence_structure |-> analyze_sentence_structure(clean, parser),
        format |-> format_result(analyze_length(clean),
                                 check_formatting_issues(raw)),
        experience_duration |-> extract_experience_duration(clean, year)]

\* analyze_resume: the analyses of the raw and of the cleaned text, compiled
compile_results(raw, clean, parser, seed, year) ==
    LET experience_text == extract_section_content(raw, "experience")
    IN [contacts |-> extract_all_contacts(clean, seed),
        sections |-> detect_sections(raw),
        verb_analysis |->
            analyze_verbs(IF experience_text # <<>> THEN experience_text ELSE clean,
                          parser, seed),
        metrics |-> detect_quantifiable_achievements(clean),
        bullets |-> analyze_bullet_points(raw),
        fillers |-> check_filler_words(clean, seed),
        sentence_structure |-> analyze_sentence_structure(clean, parser),
        format |-> format_result(analyze_length(clean),
                                 check_formatting_issues(clean)),
        experience_duration |-> extract_experience_duration(clean, year)]

with_priority(recs, priority) == SelectSeq(recs, LAMBDA r : r.priority = priority)

\* a result whose medium bucket takes every recommendation that is not HIGH
api_result_two_buckets(a, sc, recs) ==
    [success |-> TRUE,
     score |-> sc.total_score,
     level |-> sc.level,
     recommendations |-> recs,
     sections_missing |-> SelectSeq(SECTION_NAMES, LAMBDA section : ~a.sections[section]),
     contact_info |-> a.contacts,
     issues_to_fix |-> [high_priority |-> with_priority(recs, "HIGH"),
                        medium_priority |->
                            SelectSeq(recs, LAMBDA r : r.priority # "HIGH")],
     summary |-> [total_score |-> sc.total_score,
                  level |-> sc.level,
                  critical_issues |-> Len(with_priority(recs, "HIGH")),
                  total_recommendations |-> Len(recs)]]

\* the dict that ResumeAnalyzerAPI.analyze builds from analyze_resume's
\* (full_analysis is the summary and the variables)
api_result(a, sc, recs) ==
    [success |-> TRUE,
     score |-> sc.total_score,
     level |-> sc.level,
     recommendations |-> recs,
     sections_missing |-> SelectSeq(SECTION_NAMES, LAMBDA section : ~a.sections[section]),
     contact_info |-> a.contacts,
     issues_to_fix |-> [high_priority |-> with_priority(recs, "HIGH"),
                        medium_priority |-> with_priority(recs, "MEDIUM")],
     summary |-> [total_score |-> sc.total_score,
                  level |-> sc.level,
                  critical_issues |-> Len(with_priority(recs, "HIGH")),
                  total_recommendations |-> Len(recs)]]

\* A variant of the extraction step that swallows the failure and hands an
\* empty text to the later stages.
ExtractText_returns_empty ==
    /\ pc = "start"
    /\ raw_text' = IF document.readable THEN document.text ELSE <<>>
    /\ pc' = "extracted"
    /\ UNCHANGED outcome
    /\ UNCHANGED <<previous, response, server>>
    /\ UNCHANGED <<nlp, document, cleaned_text, analysis_results, score,
                   recommendations, lookup, hashseed, today, result>>

\* raw_text = self.pdf_extractor.extract_text_from_pdf(pdf_path)
ExtractText ==
    /\ pc = "start"
    /\ IF document.readable
       THEN /\ raw_text' = document.text
            /\ pc' = "extracted"
            /\ UNCHANGED outcome
       ELSE /\ outcome' = "Exception"
            /\ pc' = "raised"
            /\ UNCHANGED raw_text
    /\ UNCHANGED <<previous, response, server>>
    /\ UNCHANGED <<nlp, document, cleaned_text, analysis_results, score,
                   recommendations, lookup, hashseed, today, result>>

\* clean_text, the extractors and the analyzers, analysis_results = {...}
AnalyzeText ==
    /\ pc = "extracted"
    /\ cleaned_text' = clean_text(raw_text)
    /\ analysis_results' =
           compile_results(raw_text, clean_text(raw_text), nlp, hashseed, today)
    /\ pc' = "compiled"
    /\ UNCHANGED <<previous, response, server>>
    /\ UNCHANGED <<nlp, document, raw_text, score, recommendations, lookup,
                   hashseed, today, result, outcome>>

\* return {...} of analyze_resume and of ResumeAnalyzerAPI.analyze
Respond ==
    /\ pc = "recommended"
    /\ result' = api_result(analysis_results, score, recommendations)
    /\ outcome' = "ok"
    /\ pc' = "done"
    /\ UNCHANGED <<previous, response, server>>
    /\ UNCHANGED <<nlp, document, raw_text, cleaned_text, analysis_results,
                   score, recommendations, lookup, hashseed, today>>

\* the pieces that documents are drawn from: headings of sections, a strong
\* verb, a colon, a blank and a newline
WordsDrawn == {"associative", "experience", "Education", "formation", "led"}

PiecesDrawn == WordsDrawn \cup {":", " ", "\n"}

\* the texts of at most MaxLen pieces in which no word follows a word
TextsDrawn ==
    {t \in UNION {[1..n -> PiecesDrawn] : n \in 0..MaxLen} :
        \A i \in 1..(Len(t) - 1) : ~(t[i] \in WordsDrawn /\ t[i + 1] \in WordsDrawn)}

\* an uploaded file: one the extractor cannot read, or one with a text
Documents ==
    {[readable |-> FALSE, text |-> <<>>]}
        \cup {[readable |-> TRUE, text |-> t] : t \in TextsDrawn}

Init ==
    /\ nlp \in BOOLEAN
    /\ hashseed = 0
    /\ pc = "start"
    /\ document \in Documents
    /\ raw_text = <<>>
    /\ cleaned_text = <<>>
    /\ analysis_results = EmptyDict
    /\ score = EmptyDict
    /\ recommendations = <<>>
    /\ lookup = EmptyDict
    /\ today \in YearsOfCall
    /\ result = EmptyDict
    /\ outcome = "none"
    /\ previous = EmptyDict
    /\ response = EmptyDict
    /\ NoRequests

Next ==
    \/ ExtractText
    \/ AnalyzeText
    \/ CalculateScore
    \/ GenerateRecommendations
    \/ Respond

Spec == Init /\ [][Next]_vars

----------------------------------------------------------------------------
(* Properties of the scorer.                                               *)

Scored == "total_score" \in DOMAIN score

\* C1: for every combination of analyzer outputs, missing sub-results
\* included, the total score returned by calculate_score is within 0..100.
C1_TotalScoreInRange ==
    (pc \in {"scored", "recommended"} /\ Scored)
        => (0 <= score.total_score /\ score.total_score <= 100)

\* C1 witness: calculate_score has run on an analysis with every sub-result
\* missing; only the format and language categories give points.
C1_Witness ==
    /\ pc = "scored"
    /\ DOMAIN analysis_results = {}
    /\ score.total_score = 25

\* C2: every breakdown entry lies within its declared range: contact_info
\* in 0..10, sections in 0..15, verb_quality in 0..20,
\* quantifiable_achievements in 0..20, format in 0..15, bullet_points in
\* 0..10, language_quality in 0..10.
C2_BreakdownInRange ==
    (pc \in {"scored", "recommended"} /\ Scored) =>
        /\ score.breakdown.contact_info \in 0..10
        /\ score.breakdown.sections \in 0..15
        /\ score.breakdown.verb_quality \in 0..20
        /\ score.breakdown.quantifiable_achievements \in 0..20
        /\ score.breakdown.format \in 0..15
        /\ score.breakdown.bullet_points \in 0..10
        /\ score.breakdown.language_quality \in 0..10

\* the analyzer outputs of the scoring example
ExampleInput ==
    /\ DOMAIN analysis_results =
         {"contacts", "sections", "verb_analysis", "metrics", "format",
          "bullets", "fillers"}
    /\ Len(analysis_results.contacts.emails) = 1
    /\ analysis_results.contacts.phones = <<>>
    /\ analysis_results.contacts.linkedin = <<>>
    /\ analysis_results.contacts.github = <<>>
    /\ analysis_results.contacts.location = ""
    /\ {s \in SectionSet : analysis_results.sections[s]}
         = {"experience", "education"}
    /\ analysis_results.verb_analysis.passive_count = 0
    /\ analysis_results.verb_analysis.weak_count = 0
    /\ analysis_results.verb_analysis.strong_count = 6
    /\ analysis_results.metrics.has_metrics
    /\ analysis_results.metrics.metrics_count = 4
    /\ ~analysis_results.format.is_too_long
    /\ ~analysis_results.format.is_too_short
    /\ ~analysis_results.format.formatting_issues.has_issues
    /\ analysis_results.bullets.has_bullets
    /\ analysis_results.bullets.optimal_length
    /\ analysis_results.fillers.filler_count = 0

ExampleBreakdown ==
    [contact_info |-> 3, sections |-> 6, verb_quality |-> 12,
     quantifiable_achievements |-> 16, format |-> 15, bullet_points |-> 10,
     language_quality |-> 10]

ThresholdLevel(s) ==
    CASE s >= 80 -> "Excellent"
      [] s >= 60 /\ s < 80 -> "Bon"
      [] s >= 40 /\ s < 60 -> "Moyen"
      [] s < 40 -> "À améliorer"

\* C4: for every score in 0..100 the level the scorer derives and the level
\* the lookup endpoint returns are the same, and both follow the thresholds
\* 80, 60 and 40.
C4_LevelsAgree ==
    (pc = "level" /\ lookup.score \in 0..100
     /\ "status" \in DOMAIN lookup /\ "level" \in DOMAIN score) =>
        /\ lookup.status = 200
        /\ lookup.level = score.level
        /\ score.level = ThresholdLevel(lookup.score)

\* C4 witness: both levels have been derived for the boundary score 80.
C4_Witness ==
    /\ pc = "level"
    /\ lookup.score = 80
    /\ "status" \in DOMAIN lookup
    /\ "level" \in DOMAIN score
    /\ lookup.level = "Excellent"
    /\ score.level = "Excellent"

----------------------------------------------------------------------------
(* Properties of the recommendation engine.                                *)

\* the position of an entry's rule in the order of evaluation
RuleRank(entry) ==
    CASE entry.issue = "Email manquant" -> 1
      [] entry.issue = "Profil LinkedIn manquant" -> 2
      [] entry.issue = "Section experience manquante" -> 3
      [] entry.issue = "Section education manquante" -> 4
      [] entry.issue = "Section skills manquante" -> 5
      [] entry.issue = "verbes passifs détectés" -> 6
      [] entry.issue = "Peu de verbes d'action forts" -> 7
      [] entry.issue = "Manque de résultats quantifiables" -> 8
      [] entry.issue = "CV trop long" -> 9
      [] entry.issue = "Mots de remplissage excessifs" -> 10
      [] entry.issue = "Manque de bullet points" -> 11
      [] OTHER -> 0

\* C5: in the returned list no MEDIUM entry precedes a HIGH entry, no LOW
\* entry precedes a HIGH or MEDIUM entry, and entries of equal priority are
\* in the order in which their rules were evaluated.
C5_PriorityOrder ==
    pc = "recommended" =>
        \A i, j \in 1..Len(recommendations) :
            i < j =>
                /\ priority_order(recommendations[i].priority)
                     <= priority_order(recommendations[j].priority)
                /\ (recommendations[i].priority = recommendations[j].priority
                      => RuleRank(recommendations[i]) < RuleRank(recommendations[j]))

\* C5 witness: a list holding the missing-email and the excessive-fillers
\* entries, MEDIUM entries appended before HIGH entries, and several
\* entries of each of HIGH and MEDIUM.
C5_Witness ==
    /\ pc = "recommended"
    /\ \E i, j \in 1..Len(recommendations) :
          /\ i < j
          /\ recommendations[i].issue = "Email manquant"
          /\ recommendations[j].issue = "Mots de remplissage excessifs"
    /\ \E i \in 1..Len(recommendations) :
          recommendations[i].issue = "Manque de bullet points"
    /\ \E i \in 1..Len(recommendations) :
          recommendations[i].issue = "Profil LinkedIn manquant"
    /\ \E i \in 1..Len(recommendations) :
          recommendations[i].issue = "Manque de résultats quantifiables"

\* the entries of the list that carry an issue
EntriesOf(issue) ==
    {i \in 1..Len(recommendations) : recommendations[i].issue = issue}

\* one entry of the given priority when the condition holds, none otherwise
OneIff(issue, priority, condition) ==
    IF condition
    THEN /\ Cardinality(EntriesOf(issue)) = 1
         /\ \A i \in EntriesOf(issue) : recommendations[i].priority = priority
    ELSE EntriesOf(issue) = {}

Count(condition) == IF condition THEN 1 ELSE 0

\* C6: the list holds exactly the entries whose rule condition holds: HIGH
\* for no email, MEDIUM for no LinkedIn handle, one HIGH per missing section
\* of experience, education, skills, HIGH with at most 3 examples for more
\* than 3 passive verbs, MEDIUM for fewer than 5 strong verbs, HIGH for no
\* metrics or fewer than 3, MEDIUM for a too long document, LOW for more
\* than 5 fillers, MEDIUM for no bullets; and no other entry.
C6_ExactlyTheRules ==
    pc = "recommended" =>
        LET contacts == Get(analysis_results, "contacts", EmptyDict)
            sections == Get(analysis_results, "sections", EmptyDict)
            verbs    == Get(analysis_results, "verb_analysis", EmptyDict)
            metrics  == Get(analysis_results, "metrics", EmptyDict)
            format_analysis == Get(analysis_results, "format", EmptyDict)
            fillers  == Get(analysis_results, "fillers", EmptyDict)
            bullets  == Get(analysis_results, "bullets", EmptyDict)
            noEmail    == Get(contacts, "emails", <<>>) = <<>>
            noLinkedin == Get(contacts, "linkedin", <<>>) = <<>>
            noSection(name) == ~Get(sections, name, FALSE)
            passive    == Get(verbs, "passive_count", 0) > 3
            fewStrong  == Get(verbs, "strong_count", 0) < 5
            fewMetrics == \/ ~Get(metrics, "has_metrics", FALSE)
                          \/ Get(metrics, "metrics_count", 0) < 3
            tooLong    == Get(format_analysis, "is_too_long", FALSE)
            manyFillers == Get(fillers, "filler_count", 0) > 5
            noBullets  == ~Get(bullets, "has_bullets", FALSE)
        IN /\ OneIff("Email manquant", "HIGH", noEmail)
           /\ OneIff("Profil LinkedIn manquant", "MEDIUM", noLinkedin)
           /\ OneIff("Section experience manquante", "HIGH", noSection("experience"))
           /\ OneIff("Section education manquante", "HIGH", noSection("education"))
           /\ OneIff("Section skills manquante", "HIGH", noSection("skills"))
           /\ OneIff("verbes passifs détectés", "HIGH", passive)
           /\ \A i \in EntriesOf("verbes passifs détectés") :
                 /\ Len(recommendations[i].examples) <= 3
                 /\ recommendations[i].examples = Take(verbs.passive_verbs, 3)
           /\ OneIff("Peu de verbes d'action forts", "MEDIUM", fewStrong)
           /\ OneIff("Manque de résultats quantifiables", "HIGH", fewMetrics)
           /\ OneIff("CV trop long", "MEDIUM", tooLong)
           /\ OneIff("Mots de remplissage excessifs", "LOW", manyFillers)
           /\ OneIff("Manque de bullet points", "MEDIUM", noBullets)
           /\ Len(recommendations) =
                Count(noEmail) + Count(noLinkedin) + Count(noSection("experience"))
                + Count(noSection("education")) + Count(noSection("skills"))
                + Count(passive) + Count(fewStrong) + Count(fewMetrics)
                + Count(tooLong) + Count(manyFillers) + Count(noBullets)

\* C6 witness: a list for a document without email and without skills, with
\* 4 passive verbs, 5 strong verbs, 3 metrics and 6 fillers, that has a
\* LinkedIn handle, experience, education and bullets and is not too long:
\* exactly the four entries of the rules that hold.
C6_Witness ==
    /\ pc = "recommended"
    /\ DOMAIN analysis_results =
         {"contacts", "sections", "verb_analysis", "metrics", "format",
          "bullets", "fillers"}
    /\ analysis_results.contacts.emails = <<>>
    /\ analysis_results.contacts.linkedin # <<>>
    /\ ~analysis_results.sections["skills"]
    /\ analysis_results.sections["experience"]
    /\ analysis_results.sections["education"]
    /\ analysis_results.verb_analysis.passive_count = 4
    /\ analysis_results.verb_analysis.strong_count = 5
    /\ analysis_results.metrics.metrics_count = 3
    /\ ~analysis_results.format.is_too_long
    /\ analysis_results.fillers.filler_count = 6
    /\ analysis_results.bullets.has_bullets
    /\ Len(recommendations) = 4
    /\ recommendations[4].priority = "LOW"

----------------------------------------------------------------------------
(* Properties of the section detector and of the pipeline.                 *)

\* the document's text has been analyzed
Analyzed == pc \in {"compiled", "scored", "recommended", "done"}

Detected(section) == analysis_results.sections[section]

\* the spans [start, end) of two sections are disjoint
Disjoint(a, b) == a.start >= b.end \/ b.start >= a.end

\* C7: for every raw text and any two distinct detected sections, the spans
\* that extract_section_content takes for them do not overlap: one span
\* starts at or after the end of the other.
C7_SpansDisjoint ==
    pc = "compiled" =>
        \A A \in SectionSet : \A B \in SectionSet \ {A} :
            (Detected(A) /\ Detected(B)) =>
                Disjoint(section_span(raw_text, A), section_span(raw_text, B))

\* no heading pattern of the name matches the text
NoPatternMatches(text, name) ==
    \A n \in 1..Len(patterns_of(name)) : ~re_search(patterns_of(name)[n], text).found

\* the section names asked for: the taxonomy and a name outside it
NamesAsked == SectionSet \cup {"hobbies"}

\* C8: when no heading pattern of a section name matches the text,
\* detect_sections reports the section absent and extract_section_content
\* returns the empty string, also for a name outside the taxonomy; and
\* detect_sections reports a section present exactly when
\* extract_section_content finds a heading for it in the same text.
C8_AbsentIsEmpty ==
    pc = "compiled" =>
        /\ \A name \in NamesAsked :
              NoPatternMatches(raw_text, name) =>
                  /\ name \in SectionSet => ~Detected(name)
                  /\ extract_section_content(raw_text, name) = <<>>
        /\ \A name \in SectionSet :
              Detected(name) <=> first_matching_pattern(raw_text, name) # 0

\* C8 witness: a text with the heading "formation", which only the last
\* pattern of education matches, and with no heading of experience: education
\* is detected and has a span, experience is absent and its content is empty.
C8_Witness ==
    /\ pc = "compiled"
    /\ raw_text # <<>>
    /\ ~re_search(SECTION_PATTERNS["education"][1], raw_text).found
    /\ Detected("education")
    /\ first_matching_pattern(raw_text, "education") = 4
    /\ NoPatternMatches(raw_text, "experience")
    /\ ~Detected("experience")
    /\ extract_section_content(raw_text, "experience") = <<>>
    /\ extract_section_content(raw_text, "hobbies") = <<>>

\* the uploaded document is readable and its text is empty
EmptyDocument == document.readable /\ document.text = <<>>

\* C9: the analysis of a document whose text is empty raises nothing and
\* yields word_count 0, is_too_short, all 8 section flags false, all 8
\* names in sections_missing and a total score within 0..100.
C9_EmptyDocument ==
    EmptyDocument =>
        /\ pc # "raised"
        /\ outcome \in {"none", "ok"}
        /\ Analyzed =>
              /\ analysis_results.format.word_count = 0
              /\ analysis_results.format.is_too_short
              /\ \A section \in SectionSet : ~Detected(section)
        /\ pc \in {"scored", "recommended", "done"} =>
              score.total_score \in 0..100
        /\ pc = "done" =>
              /\ outcome = "ok"
              /\ result.sections_missing = SECTION_NAMES
              /\ result.score \in 0..100

\* C9 witness: the analysis of the empty document has returned.
C9_Witness ==
    /\ EmptyDocument
    /\ pc = "done"
    /\ outcome = "ok"
    /\ Len(result.sections_missing) = 8
    /\ analysis_results.format.word_count = 0

\* the analysis with the verb analysis of a text without any verb found
WithNoVerbs(a) == [a EXCEPT !.verb_analysis = verbs_result(<<>>, {}, {}, 0)]

\* C10: without the parser analyze_resume runs to its end on every readable
\* document: the verb and the sentence analyses are empty dicts, the score
\* is the one of verb counts 0, and a score, a level and the list of
\* recommendations are returned, no exception.
C10_WithoutParser ==
    (~nlp /\ document.readable) =>
        /\ pc # "raised"
        /\ outcome \in {"none", "ok"}
        /\ Analyzed =>
              /\ analysis_results.verb_analysis = EmptyDict
              /\ analysis_results.sentence_structure = EmptyDict
        /\ pc \in {"scored", "recommended", "done"} =>
              /\ score = calculate_score(WithNoVerbs(analysis_results))
              /\ score.breakdown.verb_quality = 0
        /\ pc = "done" =>
              /\ outcome = "ok"
              /\ result.score = score.total_score
              /\ result.level = score.level
              /\ result.recommendations = generate_recommendations(analysis_results)

\* C10 witness: without the parser, the analysis has returned for a text
\* that holds a strong verb; the few-strong-verbs entry is in the list.
C10_Witness ==
    /\ ~nlp
    /\ pc = "done"
    /\ outcome = "ok"
    /\ terms_found(STRONG_ACTION_VERBS, raw_text) # {}
    /\ analysis_results.verb_analysis = EmptyDict
    /\ \E n \in 1..Len(result.recommendations) :
          result.recommendations[n].issue = "Peu de verbes d'action forts"

----------------------------------------------------------------------------
(* The operations that read a finished analysis: generate_report,          *)
(* get_text_to_improve and the response assembly of the endpoints.         *)

\* d[k] for every k of keys raises a KeyError when one of them is absent
Raises(d, keys) == \E k \in keys : k \notin DOMAIN d

\* generate_report: the reads under STATISTIQUES (format always carries
\* word_count and estimated_pages)
generate_report_raises(a) ==
    \/ Raises(a.experience_duration, {"total_experience_years"})
    \/ Raises(a.verb_analysis, {"strong_count"})
    \/ Raises(a.metrics, {"metrics_count"})

\* generate_report: what the lines of the report are formatted from
generate_report(a, sc, recs) ==
    [score_line |-> <<sc.total_score, sc.level>>,
     breakdown |-> sc.breakdown,
     statistics |-> [word_count |-> a.format.word_count,
                     experience_years |-> a.experience_duration.total_experience_years,
                     strong_verbs |-> a.verb_analysis.strong_count,
                     metrics |-> a.metrics.metrics_count],
     sections |-> a.sections,
     contacts |-> a.contacts,
     high_priority |-> with_priority(recs, "HIGH"),
     medium_priority |-> with_priority(recs, "MEDIUM")]

\* get_text_to_improve: "experience_text and analysis['verb_analysis']
\* ['weak_count'] > 0" reads the count only when the span is not empty
get_text_to_improve_raises(a, clean) ==
    /\ extract_section_content(clean, "experience") # <<>>
    /\ Raises(a.verb_analysis, {"weak_count"})

\* get_text_to_improve: the span is looked up in analysis['clean_text']
get_text_to_improve(a, clean) ==
    LET experience_text == extract_section_content(clean, "experience")
    IN IF experience_text # <<>> /\ a.verb_analysis.weak_count > 0
       THEN <<[section |-> "experience",
               text |-> experience_text,
               issues |-> <<"Remplacer les verbes passifs et faibles par des verbes d'action",
                            "Ajouter des résultats quantifiables">>,
               weak_verbs |-> a.verb_analysis.weak_verbs,
               passive_verbs |-> a.verb_analysis.passive_verbs]>>
       ELSE <<>>

\* POST /api/v1/analyze: the reads of statistics={...}
analyze_statistics_raise(a) ==
    Raises(a.verb_analysis, {"strong_count", "weak_count"})

\* POST /api/v1/analyze: response = AnalysisResponse(...)
analyze_response(res, a) ==
    [status |-> 200,
     success |-> TRUE,
     score |-> res.score,
     level |-> res.level,
     sections_detected |-> a.sections,
     sections_missing |-> res.sections_missing,
     contact_info |-> res.contact_info,
     high_priority_issues |-> res.issues_to_fix.high_priority,
     medium_priority_issues |-> res.issues_to_fix.medium_priority,
     statistics |-> [word_count |-> a.format.word_count,
                     experience_years |-> a.experience_duration.total_experience_years,
                     strong_verbs_count |-> a.verb_analysis.strong_count,
                     weak_verbs_count |-> a.verb_analysis.weak_count,
                     metrics_count |-> a.metrics.metrics_count,
                     bullet_points |-> a.bullets.bullet_count]]

\* POST /api/v1/full-process: the reads of "statistics": {...}
full_process_statistics_raise(a) ==
    Raises(a.verb_analysis, {"strong_count"})

\* POST /api/v1/full-process: the "analysis" part of the returned dict
full_process_analysis(res, a) ==
    [status |-> 200,
     success |-> TRUE,
     analysis |-> [score |-> res.score,
                   level |-> res.level,
                   sections_detected |-> a.sections,
                   high_priority_issues |-> res.issues_to_fix.high_priority,
                   statistics |-> [word_count |-> a.format.word_count,
                                   strong_verbs |-> a.verb_analysis.strong_count,
                                   metrics |-> a.metrics.metrics_count]]]

\* except Exception as e: raise HTTPException(status_code=500, ...)
server_error == [status |-> 500, success |-> FALSE]

\* report = analyzer.generate_report(analyzer.analyze_resume(path))
GenerateReport ==
    /\ pc = "done"
    /\ pc' = "called"
    /\ response' =
           IF generate_report_raises(analysis_results)
           THEN [operation |-> "generate_report", outcome |-> "KeyError"]
           ELSE [operation |-> "generate_report", outcome |-> "ok",
                 value |-> generate_report(analysis_results, score, recommendations)]
    /\ UNCHANGED <<nlp, document, raw_text, cleaned_text, analysis_results, score,
                   recommendations, lookup, hashseed, today, result, outcome,
                   previous, server>>

\* sections = ResumeAnalyzerAPI().get_text_to_improve(path)
GetTextToImprove ==
    /\ pc = "done"
    /\ pc' = "called"
    /\ response' =
           IF get_text_to_improve_raises(analysis_results, cleaned_text)
           THEN [operation |-> "get_text_to_improve", outcome |-> "KeyError"]
           ELSE [operation |-> "get_text_to_improve", outcome |-> "ok",
                 value |-> get_text_to_improve(analysis_results, cleaned_text)]
    /\ UNCHANGED <<nlp, document, raw_text, cleaned_text, analysis_results, score,
                   recommendations, lookup, hashseed, today, result, outcome,
                   previous, server>>

\* POST /api/v1/analyze after result = analyzer_api.analyze(temp_path)
AnalyzeResponse ==
    /\ pc = "done"
    /\ pc' = "called"
    /\ response' =
           IF analyze_statistics_raise(analysis_results)
           THEN [operation |-> "/api/v1/analyze", outcome |-> "KeyError",
                 value |-> server_error]
           ELSE [operation |-> "/api/v1/analyze", outcome |-> "ok",
                 value |-> analyze_response(result, analysis_results)]
    /\ UNCHANGED <<nlp, document, raw_text, cleaned_text, analysis_results, score,
                   recommendations, lookup, hashseed, today, result, outcome,
                   previous, server>>

\* POST /api/v1/full-process after the improver returned: return {...}
FullProcessResponse ==
    /\ pc = "done"
    /\ pc' = "called"
    /\ response' =
           IF full_process_statistics_raise(analysis_results)
           THEN [operation |-> "/api/v1/full-process", outcome |-> "KeyError",
                 value |-> server_error]
           ELSE [operation |-> "/api/v1/full-process", outcome |-> "ok",
                 value |-> full_process_analysis(result, analysis_results)]
    /\ UNCHANGED <<nlp, document, raw_text, cleaned_text, analysis_results, score,
                   recommendations, lookup, hashseed, today, result, outcome,
                   previous, server>>

\* the number of lines of a drawn resume
MaxLines == 3

\* the lines that resumes are drawn from: headings, a heading with its
\* content on the same line, sentences with a weak, a strong and a passive
\* verb, a line of six filler words, and the empty line
LinesDrawn ==
    {<<"EXPERIENCE">>,
     <<"experience", ":", " ", "was", " ", "led">>,
     <<"has", " ", "led">>,
     <<"led">>,
     <<"Education">>,
     <<"very", " ", "really", " ", "just", " ", "very", " ", "really", " ", "just">>,
     <<>>}

\* "\n".join(lines)
RECURSIVE JoinLines(_)
JoinLines(lines) ==
    IF lines = <<>> THEN <<>>
    ELSE IF Len(lines) = 1 THEN lines[1]
    ELSE lines[1] \o <<"\n">> \o JoinLines(Tail(lines))

ResumesDrawn ==
    {JoinLines(lines) : lines \in UNION {[1..n -> LinesDrawn] : n \in 0..MaxLines}}

InitCallers ==
    /\ nlp \in BOOLEAN
    /\ hashseed = 0
    /\ pc = "start"
    /\ document \in {[readable |-> TRUE, text |-> t] : t \in ResumesDrawn}
                        \cup {[readable |-> FALSE, text |-> <<>>]}
    /\ raw_text = <<>>
    /\ cleaned_text = <<>>
    /\ analysis_results = EmptyDict
    /\ score = EmptyDict
    /\ recommendations = <<>>
    /\ lookup = EmptyDict
    /\ today \in YearsOfCall
    /\ result = EmptyDict
    /\ outcome = "none"
    /\ previous = EmptyDict
    /\ response = EmptyDict
    /\ NoRequests

NextCallers ==
    \/ ExtractText
    \/ AnalyzeText
    \/ CalculateScore
    \/ GenerateRecommendations
    \/ Respond
    \/ GenerateReport
    \/ GetTextToImprove
    \/ AnalyzeResponse
    \/ FullProcessResponse

SpecCallers == InitCallers /\ [][NextCallers]_vars

Called(operation) == pc = "called" /\ response.operation = operation

\* C11: with the parser unavailable, generate_report, get_text_to_improve
\* on a document whose experience span is not empty, and the response
\* assembly of /api/v1/analyze and /api/v1/full-process complete without
\* raising, and report the absent verb counts as zero or empty
C11_AbsentFieldsDoNotRaise ==
    (pc = "called" /\ ~nlp) =>
        /\ Called("generate_report") =>
               /\ response.outcome = "ok"
               /\ response.value.statistics.strong_verbs = 0
        /\ (/\ Called("get_text_to_improve")
            /\ extract_section_content(cleaned_text, "experience") # <<>>) =>
               /\ response.outcome = "ok"
               /\ response.value = <<>>
        /\ Called("/api/v1/analyze") =>
               /\ response.outcome = "ok"
               /\ response.value.status = 200
               /\ response.value.statistics.strong_verbs_count = 0
               /\ response.value.statistics.weak_verbs_count = 0
        /\ Called("/api/v1/full-process") =>
               /\ response.outcome = "ok"
               /\ response.value.status = 200
               /\ response.value.analysis.statistics.strong_verbs = 0

\* the text that analyze_resume hands to analyze_verbs
verbs_text(raw, clean) ==
    LET experience_text == extract_section_content(raw, "experience")
    IN IF experience_text # <<>> THEN experience_text ELSE clean

\* C12: with or without the parser, the weak and the strong verbs of the
\* verb analysis are the vocabulary terms contained in the lowercased text,
\* with their counts; without the parser only the passive part is empty
C12_VerbsWithoutParser ==
    Analyzed =>
        LET text == verbs_text(raw_text, cleaned_text)
            v == analysis_results.verb_analysis
        IN /\ {"weak_verbs", "weak_count", "strong_verbs", "strong_count"}
                  \subseteq DOMAIN v
           /\ SeqToSet(v.weak_verbs) = terms_found(WEAK_VERBS, text)
           /\ v.weak_count = Cardinality(terms_found(WEAK_VERBS, text))
           /\ SeqToSet(v.strong_verbs) = terms_found(STRONG_ACTION_VERBS, text)
           /\ v.strong_count = Cardinality(terms_found(STRONG_ACTION_VERBS, text))
           /\ ~nlp => Get(v, "passive_verbs", <<>>) = <<>>

----------------------------------------------------------------------------
(* Two analyses of the same document, the second one in another process    *)
(* (a restarted server, a second run of the command line) and at a later   *)
(* time.                                                                   *)

\* the string-hash seeds of a process, each with its set iteration order
Seeds == {0, 1}

\* the years in which the second analysis runs
LaterYears == {2026, 2027}

\* the lines that the resumes with facts are drawn from: cities, a city
\* with its country, a country, closed and open year ranges, a sentence
FactLines ==
    {<<"Tunis", " ", "Sfax">>,
     <<"Sfax", ",", " ", "Tunisia">>,
     <<"Tunis", ",", " ", "Sfax">>,
     <<"France">>,
     <<"2018", " ", "-", " ", "2021">>,
     <<"2021", " ", "-", " ", "Present">>,
     <<"2018", " ", "-", " ", "2021", " ", "-", " ", "Present">>,
     <<"has", " ", "led">>}

\* the number of lines of a drawn resume with facts
MaxFacts == 2

\* the example of a city and a country that are no "City, Country" pair
ExampleLocationText ==
    <<"Experience", " ", "in", " ", "Tunis", ",", " ", "worked", " ", "with",
      " ", "clients", " ", "in", " ", "Morocco">>

FactResumes ==
    {JoinLines(lines) : lines \in UNION {[1..n -> FactLines] : n \in 0..MaxFacts}}
        \cup {ExampleLocationText}

\* the same file is analyzed again: a new process has its own hash seed and
\* a later call its own date
AnalyzeAgain ==
    /\ pc = "done"
    /\ previous = EmptyDict
    /\ previous' = [result |-> result, analysis |-> analysis_results,
                    hashseed |-> hashseed, today |-> today]
    /\ hashseed' \in Seeds
    /\ today' \in {year \in LaterYears : year >= today}
    /\ pc' = "start"
    /\ raw_text' = <<>>
    /\ cleaned_text' = <<>>
    /\ analysis_results' = EmptyDict
    /\ score' = EmptyDict
    /\ recommendations' = <<>>
    /\ result' = EmptyDict
    /\ outcome' = "none"
    /\ UNCHANGED <<nlp, document, lookup, response, server>>

InitTwice ==
    /\ nlp = TRUE
    /\ hashseed = 0
    /\ pc = "start"
    /\ document \in {[readable |-> TRUE, text |-> t] : t \in FactResumes}
    /\ raw_text = <<>>
    /\ cleaned_text = <<>>
    /\ analysis_results = EmptyDict
    /\ score = EmptyDict
    /\ recommendations = <<>>
    /\ lookup = EmptyDict
    /\ today \in YearsOfCall
    /\ result = EmptyDict
    /\ outcome = "none"
    /\ previous = EmptyDict
    /\ response = EmptyDict
    /\ NoRequests

NextTwice ==
    \/ ExtractText
    \/ AnalyzeText
    \/ CalculateScore
    \/ GenerateRecommendations
    \/ Respond
    \/ AnalyzeAgain

SpecTwice == InitTwice /\ [][NextTwice]_vars

\* C13: two analyses of the same document text give the same output in
\* every field; the output depends on the text alone, not on the process
\* (set iteration order) or on the time of the call
C13_SameTextSameOutput ==
    (pc = "done" /\ previous # EmptyDict) =>
        /\ result = previous.result
        /\ analysis_results = previous.analysis

\* country.lower() in COUNTRIES
KnownCountry(name) ==
    \E n \in 1..Len(COUNTRIES) : name \in {COUNTRIES[n], Title(COUNTRIES[n])}

\* the gazetteer entries that occur in the text as a whole word
Occurring(names, text) == {name \in SeqToSet(names) : word_found(text, name)}

RangesOf(text) == re_findall(date_range_pattern, text)

\* the texts whose year ranges are "2018 - 2021" and "2021 - Present"
ExampleRanges(text) ==
    /\ Len(RangesOf(text)) = 2
    /\ SeqToSet(RangesOf(text)) = {"2018 - 2021", "2021 - Present"}

\* C15: number_of_positions is the number of matched year ranges, there is
\* one entry per range with duration = end - start, the end of an open
\* range being the current year, and total_experience_years is the sum of
\* the durations; "2018 - 2021" with "2021 - Present" gives 2 positions and
\* 3 + (current year - 2021) years
C15_DurationOfRanges ==
    Analyzed =>
        LET d == analysis_results.experience_duration
            end_year(e) == IF e.end = "Present" THEN today ELSE YearValue(e.end)
        IN /\ d.number_of_positions = Len(RangesOf(cleaned_text))
           /\ Len(d.experiences) = d.number_of_positions
           /\ \A n \in 1..Len(d.experiences) :
                  /\ d.experiences[n].duration_years =
                         end_year(d.experiences[n]) - YearValue(d.experiences[n].start)
                  /\ (d.experiences[n].end = "Present") =
                         (Lower(cleaned_text[FindAllFrom(date_range_pattern,
                                                         cleaned_text, 0)[n].end])
                              \in {"present", "current"})
           /\ d.total_experience_years =
                  SumSeq([n \in 1..Len(d.experiences) |-> d.experiences[n].duration_years])
           /\ ExampleRanges(cleaned_text) =>
                  /\ d.number_of_positions = 2
                  /\ d.total_experience_years = 3 + (today - 2021)

\* the example's two ranges, analyzed in 2027: 3 + 6 years
C15_Witness ==
    /\ Analyzed
    /\ ExampleRanges(cleaned_text)
    /\ today = 2027
    /\ analysis_results.experience_duration.number_of_positions = 2
    /\ analysis_results.experience_duration.total_experience_years = 9

\* ResumeAnalyzerAPI.analyze has returned
Returned == pc \in {"done", "called"} /\ outcome = "ok"

\* seq lists the members of S, each once
ListsExactly(seq, S) == SeqToSet(seq) = S /\ Len(seq) = Cardinality(S)

\* sub holds exactly the entries of seq with the priority, in seq's order
BucketOf(sub, seq, priority) ==
    \E at \in [1..Len(sub) -> 1..Len(seq)] :
        /\ \A k \in 1..Len(sub) : sub[k] = seq[at[k]]
        /\ \A k \in 1..(Len(sub) - 1) : at[k] < at[k + 1]
        /\ {at[k] : k \in 1..Len(sub)} =
               {n \in 1..Len(seq) : seq[n].priority = priority}

\* C16: in the result of analyze, sections_missing lists exactly the
\* sections whose presence flag is false, so that detected and missing
\* sections partition the taxonomy of 8 names; high_priority holds exactly
\* the HIGH and medium_priority exactly the MEDIUM recommendations, in the
\* order of the recommendation list; score and level are the scorer's
C16_ResultOfAnalyze ==
    Returned =>
        LET detected == {s \in SectionSet : analysis_results.sections[s]}
            missing == SeqToSet(result.sections_missing)
        IN /\ ListsExactly(result.sections_missing, SectionSet \ detected)
           /\ detected \cup missing = SectionSet
           /\ detected \cap missing = {}
           /\ Cardinality(SectionSet) = 8
           /\ result.recommendations = recommendations
           /\ BucketOf(result.issues_to_fix.high_priority, recommendations, "HIGH")
           /\ BucketOf(result.issues_to_fix.medium_priority, recommendations, "MEDIUM")
           /\ result.score = calculate_score(analysis_results).total_score
           /\ result.level = calculate_score(analysis_results).level

\* a result with a detected and a missing section and recommendations of
\* the three priorities
C16_Witness ==
    /\ Returned
    /\ analysis_results.sections["experience"]
    /\ result.sections_missing # <<>>
    /\ result.issues_to_fix.high_priority # <<>>
    /\ result.issues_to_fix.medium_priority # <<>>
    /\ Len(result.recommendations) >
           Len(result.issues_to_fix.high_priority)
               + Len(result.issues_to_fix.medium_priority)

\* C17: get_text_to_improve returns one entry, for the experience section,
\* with the span the analysis used for its verb analysis, the weak and the
\* passive verbs, when the analysis found a non-empty experience section
\* with weak_count > 0, and the empty list otherwise
C17_TextToImprove ==
    Called("get_text_to_improve") =>
        LET span == extract_section_content(raw_text, "experience")
            verbs == analysis_results.verb_analysis
        IN /\ response.outcome = "ok"
           /\ IF span # <<>> /\ Get(verbs, "weak_count", 0) > 0
              THEN /\ Len(response.value) = 1
                   /\ response.value[1].section = "experience"
                   /\ response.value[1].text = span
                   /\ response.value[1].weak_verbs = verbs.weak_verbs
                   /\ response.value[1].passive_verbs = verbs.passive_verbs
              ELSE response.value = <<>>

----------------------------------------------------------------------------
(* The HTTP server (src/main.py): two requests to /api/v1/improve or       *)
(* /api/v1/full-process, each with its own document, and the downloads of  *)
(* what they generated.  A document is known by the request that uploaded  *)
(* it; the content of a file is the document it was produced from.  The    *)
(* rewriting service and pdflatex are outside the repository: a call to    *)
(* the service returns, the compilation yields a PDF or does not.          *)

\* the variables of one analysis, which the server's handlers leave alone
analyzer == <<nlp, pc, document, raw_text, cleaned_text, analysis_results,
              score, recommendations, lookup, hashseed, today, result, outcome,
              previous, response>>

\* the last tick of the clock
MaxClock == 5

\* strftime("%Y%m%d_%H%M%S") names a second; timestamp() names a tick
TicksPerSecond == 3

Second(tick) == tick \div TicksPerSecond

RequestIds == {1, 2}

Languages == {"en", "fr"}

\* filename.endswith('.pdf')
IsPdf(filename) == filename \in {"cv.pdf"}

\* what the first request is drawn from
FirstRequests ==
    [endpoint : {"/api/v1/analyze", "/api/v1/improve", "/api/v1/full-process"},
     filename : {"cv.pdf", "cv.docx"},
     language : {"en", "fr", "de"},
     plan : {<<>>, <<"experience", "bullet_suggestions">>}]

\* what the second request is drawn from: an upload with the same filename
SecondRequests ==
    [endpoint : {"/api/v1/improve", "/api/v1/full-process"},
     filename : {"cv.pdf"},
     language : {"en"},
     plan : {<<"professional_summary">>}]

\* a request as it arrives: nothing saved, read, generated or answered
Arriving(r) ==
    [endpoint |-> r.endpoint, filename |-> r.filename, language |-> r.language,
     plan |-> r.plan, at |-> "received", temp_path |-> <<>>, analyzed |-> 0,
     read |-> {}, llm_calls |-> 0, status |-> 0, timestamp |-> 0 - 1,
     pdf_url |-> FALSE, served |-> {}, compiled |-> "not run", folder |-> 0 - 1]

\* the prefix of the handler's temporary file and output folder
TempPrefix(endpoint) ==
    CASE endpoint = "/api/v1/analyze" -> "analyze"
      [] endpoint = "/api/v1/improve" -> "improve"
      [] endpoint = "/api/v1/full-process" -> "full"
FolderPrefix(endpoint) == IF endpoint = "/api/v1/improve" THEN "improved" ELSE "full"

\* os.path.join(TEMP_DIR, f"{prefix}_{datetime.now().timestamp()}_{file.filename}")
TempPath(endpoint, tick, filename) ==
    <<"temp_files", TempPrefix(endpoint), tick, filename>>

\* os.path.join(OUTPUT_DIR, f"{prefix}_{timestamp}") and a file of the folder
OutputPath(prefix, second, name) == <<"generated_resumes", prefix, second, name>>

\* os.path.exists(folder)
FolderExists(fs, prefix, second) ==
    \E path \in DOMAIN fs :
        path[1] = "generated_resumes" /\ path[2] = prefix /\ path[3] = second

\* fs with the files of paths written from the document doc
Written(fs, paths, doc) ==
    [path \in DOMAIN fs \cup paths |-> IF path \in paths THEN doc ELSE fs[path]]

\* os.remove(path) if os.path.exists(path)
Removed(fs, path) == [q \in DOMAIN fs \ {path} |-> fs[q]]

\* the handler got past its checks: raise HTTPException before the try
Rejection(r) ==
    IF ~IsPdf(r.filename) THEN 400
    ELSE IF r.endpoint # "/api/v1/analyze" /\ ~groq_api_key THEN 503
    ELSE IF r.endpoint = "/api/v1/improve" /\ r.language \notin Languages THEN 400
    ELSE 0

\* the handler up to shutil.copyfileobj(file.file, buffer)
Receive(i) ==
    LET r == requests[i]
        temp_path == TempPath(r.endpoint, clock, r.filename)
    IN /\ r.at = "received"
       /\ IF Rejection(r) # 0
          THEN /\ requests' = [requests EXCEPT ![i].at = "responded",
                                               ![i].status = Rejection(r)]
               /\ UNCHANGED <<files, clock>>
          ELSE /\ clock < MaxClock
               /\ clock' = clock + 1
               /\ files' = Written(files, {temp_path}, i)
               /\ requests' = [requests EXCEPT ![i].at = "saved",
                                               ![i].temp_path = temp_path]
       /\ UNCHANGED <<groq_api_key, analyzer>>

\* An exit of the handlers without the finally clause: the failure is
\* answered and the temporary file stays.
Fail_without_finally(i) ==
    LET r == requests[i]
    IN /\ r.at \in {"saved", "analyzed", "improved"}
       /\ requests' = [requests EXCEPT ![i].at = "responded", ![i].status = 500]
       /\ UNCHANGED <<files, clock, groq_api_key, analyzer>>

\* a step of a handler after the upload was copied raises (the extraction,
\* the analysis, the rewriting service, save_improvements after some of its
\* files, the response model): except answers 500, finally removes the
\* temporary file
Fail(i) ==
    LET r == requests[i]
    IN /\ r.at \in {"saved", "analyzed", "improved"}
       /\ \E names \in IF r.at = "improved"
                        THEN {{}, {"improvement_report.txt"}} ELSE {{}} :
             LET paths == {OutputPath(FolderPrefix(r.endpoint), Second(clock), name) :
                               name \in names}
                 doc == IF r.read = {} THEN i ELSE CHOOSE d \in r.read : TRUE
             IN files' = Removed(Written(files, paths, doc), r.temp_path)
       /\ requests' = [requests EXCEPT ![i].at = "responded", ![i].status = 500]
       /\ UNCHANGED <<clock, groq_api_key, analyzer>>

\* analyze_resume (main.py): analyzer_api.analyze(temp_path), the response
\* and finally the removal of the temporary file
AnalyzeResume(i) ==
    LET r == requests[i]
    IN /\ r.at = "saved"
       /\ r.endpoint = "/api/v1/analyze"
       /\ requests' = [requests EXCEPT ![i].at = "responded",
                                       ![i].status = 200,
                                       ![i].analyzed = r.analyzed + 1,
                                       ![i].read = r.read \cup {files[r.temp_path]}]
       /\ files' = Removed(files, r.temp_path)
       /\ UNCHANGED <<clock, groq_api_key, analyzer>>

\* full_process: analysis_result = analyzer_api.analyze(temp_path)
Analyze(i) ==
    LET r == requests[i]
    IN /\ r.at = "saved"
       /\ r.endpoint = "/api/v1/full-process"
       /\ requests' = [requests EXCEPT ![i].at = "analyzed",
                                       ![i].analyzed = r.analyzed + 1,
                                       ![i].read = r.read \cup {files[r.temp_path]}]
       /\ UNCHANGED <<files, clock, groq_api_key, analyzer>>

\* lang_instructions[language] in the first prompt that is built, of
\* _improve_sections' calls or of _generate_latex_resume
prompt_raises(language) == language \notin Languages

\* improver.analyze_and_improve(temp_path, language): the analysis, one call
\* of the service for every planned improvement and one for the LaTeX
\* source; a KeyError leaves through except (500) and finally
Improve(i) ==
    LET r == requests[i]
    IN /\ \/ r.at = "saved" /\ r.endpoint = "/api/v1/improve"
          \/ r.at = "analyzed"
       /\ IF prompt_raises(r.language)
          THEN /\ requests' = [requests EXCEPT ![i].at = "responded",
                                               ![i].status = 500,
                                               ![i].analyzed = r.analyzed + 1,
                                               ![i].read = r.read \cup {files[r.temp_path]}]
               /\ files' = Removed(files, r.temp_path)
          ELSE /\ requests' = [requests EXCEPT ![i].at = "improved",
                                               ![i].analyzed = r.analyzed + 1,
                                               ![i].read = r.read \cup {files[r.temp_path]},
                                               ![i].llm_calls = Len(r.plan) + 1]
               /\ UNCHANGED files
       /\ UNCHANGED <<clock, groq_api_key, analyzer>>

\* the files that save_improvements writes, by the types of the download
OutputNames(pdf) ==
    {"improvement_report.txt", "improved_resume.tex", "improvements.json"}
        \cup (IF pdf THEN {"improved_resume.pdf"} ELSE {})

\* timestamp = strftime(...), makedirs(exist_ok=True), save_improvements,
\* the response with its download URLs, and finally the removal of the
\* temporary file; ImprovementResponse rejects 'pdf_url': None
Save(i) ==
    LET r == requests[i]
        timestamp == Second(clock)
        prefix == FolderPrefix(r.endpoint)
        doc == CHOOSE d \in r.read : TRUE
    IN /\ r.at = "improved"
       /\ \E compiled \in BOOLEAN :
             LET paths == {OutputPath(prefix, timestamp, name) :
                               name \in OutputNames(compiled)}
                 saved == Written(files, paths, doc)
                 pdf_generated ==
                     OutputPath(prefix, timestamp, "improved_resume.pdf") \in DOMAIN saved
                 invalid == r.endpoint = "/api/v1/improve" /\ ~pdf_generated
             IN /\ files' = Removed(saved, r.temp_path)
                /\ requests' =
                       [requests EXCEPT ![i].at = "responded",
                                        ![i].status = IF invalid THEN 500 ELSE 200,
                                        ![i].timestamp = IF invalid THEN 0 - 1 ELSE timestamp,
                                        ![i].pdf_url = ~invalid /\ pdf_generated,
                                        ![i].compiled = IF compiled THEN "compiled"
                                                        ELSE "failed",
                                        ![i].folder = timestamp]
       /\ UNCHANGED <<clock, groq_api_key, analyzer>>

\* download_file's file_mapping
FileOfType(file_type) ==
    CASE file_type = "report" -> "improvement_report.txt"
      [] file_type = "latex" -> "improved_resume.tex"
      [] file_type = "pdf" -> "improved_resume.pdf"
      [] file_type = "json" -> "improvements.json"

\* download_file(timestamp, file_type): the folder improved_{timestamp} when
\* it exists, otherwise full_{timestamp}; the document the file served was
\* produced from, or 404
download_file(fs, timestamp, file_type) ==
    LET prefix == IF FolderExists(fs, "improved", timestamp) THEN "improved"
                  ELSE IF FolderExists(fs, "full", timestamp) THEN "full"
                  ELSE ""
        file_path == OutputPath(prefix, timestamp, FileOfType(file_type))
    IN IF prefix = "" \/ file_path \notin DOMAIN fs THEN 404 ELSE fs[file_path]

\* the client of request i follows one of the URLs of its response
Download(i) ==
    LET r == requests[i]
    IN /\ r.at = "responded"
       /\ r.status = 200
       /\ r.endpoint # "/api/v1/analyze"
       /\ \E file_type \in {"report", "latex", "json"}
                               \cup (IF r.pdf_url THEN {"pdf"} ELSE {}) :
             requests' = [requests EXCEPT
                              ![i].at = "downloaded",
                              ![i].served = {download_file(files, r.timestamp, file_type)}]
       /\ UNCHANGED <<files, clock, groq_api_key, analyzer>>

\* time passes
Tick ==
    /\ clock < MaxClock
    /\ clock' = clock + 1
    /\ UNCHANGED <<requests, files, groq_api_key, analyzer>>

InitServer ==
    /\ nlp = TRUE
    /\ hashseed = 0
    /\ pc = "serving"
    /\ document = <<>>
    /\ raw_text = <<>>
    /\ cleaned_text = <<>>
    /\ analysis_results = EmptyDict
    /\ score = EmptyDict
    /\ recommendations = <<>>
    /\ lookup = EmptyDict
    /\ today \in YearsOfCall
    /\ result = EmptyDict
    /\ outcome = "none"
    /\ previous = EmptyDict
    /\ response = EmptyDict
    /\ \E first \in FirstRequests, second \in SecondRequests :
           requests = <<Arriving(first), Arriving(second)>>
    /\ files = EmptyDict
    /\ clock = 0
    /\ groq_api_key \in BOOLEAN

NextServer ==
    \/ \E i \in RequestIds : Receive(i)
    \/ \E i \in RequestIds : AnalyzeResume(i)
    \/ \E i \in RequestIds : Fail(i)
    \/ \E i \in RequestIds : Analyze(i)
    \/ \E i \in RequestIds : Improve(i)
    \/ \E i \in RequestIds : Save(i)
    \/ \E i \in RequestIds : Download(i)
    \/ Tick

SpecServer == InitServer /\ [][NextServer]_vars

\* C18: the requests are independent: what a request's handler reads from
\* its temporary upload is its own document, and the files that the
\* download URLs of its response serve were produced from its own document,
\* whatever the other request does and when (the same second, the same
\* filename)
C18_RequestsIndependent ==
    \A i \in RequestIds :
        /\ requests[i].read \subseteq {i}
        /\ requests[i].served \subseteq {i}

\* C19: on both endpoints that take a language code, a request (a PDF
\* upload to a server with its key) whose code is neither 'en' nor 'fr' is
\* rejected with a validation error before the document is analyzed and
\* before any call of the rewriting service
C19_LanguageValidated ==
    \A i \in RequestIds :
        LET r == requests[i]
        IN (IsPdf(r.filename) /\ groq_api_key /\ r.language \notin Languages) =>
               /\ r.analyzed = 0
               /\ r.llm_calls = 0
               /\ r.at # "received" => (r.at = "responded" /\ r.status \in {400, 422})

----------------------------------------------------------------------------
(* The range of the score-lookup endpoint.                                 *)

\* the endpoint has answered the request for lookup.score
LookedUp == pc = "level" /\ "status" \in DOMAIN lookup

\* C20: the score lookup rejects every score below 0 or above 100 with a
\* validation error and gives no level and no tips for it; it accepts
\* every score of 0..100, the boundaries 0 and 100 included
C20_LookupRange ==
    LookedUp =>
        IF lookup.score \in 0..100
        THEN /\ lookup.status = 200
             /\ {"level", "tips"} \subseteq DOMAIN lookup
             /\ lookup.level \in {"Excellent", "Bon", "Moyen", "À améliorer"}
             /\ lookup.tips > 0
        ELSE /\ lookup.status = 400
             /\ "level" \notin DOMAIN lookup
             /\ "tips" \notin DOMAIN lookup

\* the boundary 100 was looked up and accepted
C20_Witness ==
    /\ LookedUp
    /\ lookup.score = 100
    /\ lookup.status = 200
    /\ lookup.level = "Excellent"

-----------------------------------------------------------------------------
(* Failure of the extraction (lines 22-39, 777-779)                        *)

\* Claim C21: when extract_text_from_pdf fails, the only step of the analysis
\* is the one that raises: the text, the normalized text, the analysis, the
\* score, the recommendations and the returned value all stay as they were
\* before the call, the extraction is not started again, and the caller is
\* left with the exception.
C21_ExtractionFailureAborts ==
    /\ [](~document.readable =>
            /\ pc \in {"start", "raised"}
            /\ raw_text = <<>>
            /\ cleaned_text = <<>>
            /\ analysis_results = EmptyDict
            /\ score = EmptyDict
            /\ recommendations = <<>>
            /\ result = EmptyDict
            /\ (pc = "raised" <=> outcome = "Exception"))
    /\ [][~document.readable =>
            (pc = "start" /\ pc' = "raised" /\ outcome' = "Exception")]_vars

C21_Witness ==
    /\ ~document.readable
    /\ pc = "raised"
    /\ outcome = "Exception"
    /\ result = EmptyDict

-----------------------------------------------------------------------------
(* clean_text as a function of the text (lines 41-48)                      *)

MaxClean == 5

\* a word, the underscore, a removed and a kept character, a blank, a newline
CleanPieces == {"led", "_", "*", "@", " ", "\n"}

CleanTextsDrawn == UNION {[1..n -> CleanPieces] : n \in 0..MaxClean}

\* clean_text = self.pdf_extractor.clean_text(raw_text)
CleanText ==
    /\ pc = "cleaning"
    /\ cleaned_text' = clean_text(raw_text)
    /\ pc' = "cleaned"
    /\ UNCHANGED <<previous, response, server>>
    /\ UNCHANGED <<nlp, document, raw_text, analysis_results, score,
                   recommendations, lookup, hashseed, today, result, outcome>>

\* clean_text applied to its own output
CleanAgain ==
    /\ pc = "cleaned"
    /\ raw_text' = cleaned_text
    /\ cleaned_text' = clean_text(cleaned_text)
    /\ pc' = "cleaned_again"
    /\ UNCHANGED <<previous, response, server>>
    /\ UNCHANGED <<nlp, document, analysis_results, score,
                   recommendations, lookup, hashseed, today, result, outcome>>

InitClean ==
    /\ nlp = TRUE
    /\ hashseed = 0
    /\ pc = "cleaning"
    /\ document = [readable |-> TRUE, text |-> <<>>]
    /\ raw_text \in CleanTextsDrawn
    /\ cleaned_text = <<>>
    /\ analysis_results = EmptyDict
    /\ score = EmptyDict
    /\ recommendations = <<>>
    /\ lookup = EmptyDict
    /\ today \in YearsOfCall
    /\ result = EmptyDict
    /\ outcome = "none"
    /\ previous = EmptyDict
    /\ response = EmptyDict
    /\ NoRequests

NextClean ==
    \/ CleanText
    \/ CleanAgain

SpecClean == InitClean /\ [][NextClean]_vars

\* the three properties of an output of clean_text, for a set of characters
\* that are taken to be allowed besides whitespace
CleanOutput(text, allowed) ==
    /\ \A i \in 1..Len(text) : text[i] = " " \/ text[i] \in allowed
    /\ text # <<>> => Head(text) # " " /\ text[Len(text)] # " "

Alphanumeric == {"led"}

\* Claim C22 as stated: the output is the text with every whitespace run
\* replaced by one space, then without the characters that are not
\* alphanumeric, whitespace or kept punctuation, then stripped; it has no
\* newline, no other character and no whitespace at either end.
C22_Original ==
    pc = "cleaned" =>
        /\ cleaned_text = Strip(RemoveNonAlphanumeric(CollapseWhitespace(raw_text)))
        /\ CleanOutput(cleaned_text, Alphanumeric \cup KeptPunctuation)

\* Claim C22, amended: the characters that stay are the word characters of
\* \w (letters, digits and the underscore), whitespace and the kept
\* punctuation; the output has no newline, no other character and no
\* whitespace at either end, and the empty text gives the empty text.
C22_CleanTextSteps ==
    pc = "cleaned" =>
        /\ cleaned_text = Strip(RemoveDisallowed(CollapseWhitespace(raw_text)))
        /\ CleanOutput(cleaned_text,
                       Alphanumeric \cup NonAlphanumericWords \cup KeptPunctuation)
        /\ (raw_text = <<>> => cleaned_text = <<>>)

\* a text with an underscore, a removed character and a newline was cleaned
C22_Witness ==
    /\ pc = "cleaned"
    /\ raw_text = <<"\n", "led", "_", "*">>
    /\ cleaned_text = <<"led", "_">>

\* Claim C27: clean_text applied to an output of clean_text gives that
\* output back, and no output has two whitespace characters in a row.
C27_Idempotent ==
    /\ pc = "cleaned_again" => cleaned_text = raw_text
    /\ pc = "cleaned" =>
           \A i \in 1..(Len(cleaned_text) - 1) :
               ~(cleaned_text[i] \in Whitespace /\ cleaned_text[i + 1] \in Whitespace)

-----------------------------------------------------------------------------
(* The span of a section (lines 274-296)                                   *)

\* pattern n of the section matches the text at offset i
PatternAt(text, i, section, n) == MatchAt(text, i, patterns_of(section)[n]) >= 0

\* the offsets of the text at which pattern n of the section matches
OffsetsOf(text, section, n) == {i \in 0..Len(text) : PatternAt(text, i, section, n)}

\* the patterns of the section that match somewhere in the text
MatchingPatterns(text, section) ==
    {n \in 1..Len(patterns_of(section)) : OffsetsOf(text, section, n) # {}}

\* the offsets at or after start where, in the text that remains after
\* start, a heading pattern of another section matches
OtherHeadingsFrom(text, section, start) ==
    LET rest == Slice(text, start, Len(text))
    IN {start + k : k \in {i \in 0..Len(rest) :
            \E other \in SectionSet \ {section} :
                \E n \in 1..Len(patterns_of(other)) : PatternAt(rest, i, other, n)}}

\* Claim C23: for every section with a matching pattern, the span starts
\* right after the first match of the lowest-numbered matching pattern and
\* ends at the least offset, at or after that start, where a heading
\* pattern of another section matches in the remaining text, or at the end
\* of the text; the content is the stripped text between the two.
C23_SpanOfSection ==
    pc = "compiled" =>
        \A section \in SectionSet :
            LET matching == MatchingPatterns(raw_text, section)
                n == SetMin(matching)
                start == MatchAt(raw_text, SetMin(OffsetsOf(raw_text, section, n)),
                                 patterns_of(section)[n])
                end == SetMin(OtherHeadingsFrom(raw_text, section, start)
                                  \cup {Len(raw_text)})
            IN IF matching = {}
               THEN extract_section_content(raw_text, section) = <<>>
               ELSE /\ section_span(raw_text, section) =
                           [found |-> TRUE, start |-> start, end |-> end]
                    /\ extract_section_content(raw_text, section) =
                           Strip(Slice(raw_text, start, end))

\* "formation" opens the text and "Education" the second line: the later
\* listed pattern matches first in the text, yet the span starts after
\* "Education"; a heading of the same section does not end a span, a
\* heading of another section does
C23_Witness ==
    /\ pc = "compiled"
    /\ raw_text = <<"formation", "\n", "Education", ":">>
    /\ section_span(raw_text, "education") = [found |-> TRUE, start |-> 3, end |-> 4]
    /\ extract_section_content(<<"Education", "\n", "formation", "\n">>,
                               "education") = <<"formation">>
    /\ section_span(<<"Education", "\n", "formation", "\n", "experience">>,
                    "education").end = 4

-----------------------------------------------------------------------------
(* The verb category of the score (lines 576-586)                          *)

\* Claim C24: for all counts of passive, weak and strong verbs, verb_quality
\* is max(0, min(2 * strong, 15) - min(2 * passive, 10) - min(weak, 5)) and
\* lies in 0..20 (a count that the analysis does not have is 0).
C24_VerbQuality ==
    pc = "scored" =>
        LET verbs == Get(analysis_results, "verb_analysis", EmptyDict)
            bonus == Min(2 * Get(verbs, "strong_count", 0), 15)
            passive_penalty == Min(2 * Get(verbs, "passive_count", 0), 10)
            weak_penalty == Min(Get(verbs, "weak_count", 0), 5)
        IN /\ score.breakdown.verb_quality =
                  Max(0, bonus - passive_penalty - weak_penalty)
           /\ score.breakdown.verb_quality \in 0..20

\* the bonus and the passive penalty are both over their caps
C24_Witness ==
    /\ pc = "scored"
    /\ "verb_analysis" \in DOMAIN analysis_results
    /\ analysis_results.verb_analysis.strong_count = 8
    /\ analysis_results.verb_analysis.passive_count = 6
    /\ analysis_results.verb_analysis.weak_count = 2
    /\ score.breakdown.verb_quality = 3

-----------------------------------------------------------------------------
(* The length flags and the format deduction (lines 461-477, 597-605)      *)

\* Claim C25: for every word count w, is_too_long iff w > 1000, is_too_short
\* iff w < 200 and optimal iff 300 <= w <= 800; the two flags are never both
\* true, optimal excludes both, and the format category loses 5 points
\* exactly when w < 200 or w > 1000.
C25_LengthFlags ==
    (pc = "scored" /\ "format" \in DOMAIN analysis_results) =>
        LET format == analysis_results.format
            w == format.word_count
            issues == IF format.formatting_issues.has_issues THEN 3 ELSE 0
            length == IF w < 200 \/ w > 1000 THEN 5 ELSE 0
        IN /\ format.is_too_long <=> w > 1000
           /\ format.is_too_short <=> w < 200
           /\ format.optimal <=> (300 <= w /\ w <= 800)
           /\ ~(format.is_too_long /\ format.is_too_short)
           /\ format.optimal => ~format.is_too_long /\ ~format.is_too_short
           /\ score.breakdown.format = 15 - length - issues

\* 1001 words: too long, 5 points off; the boundaries 1000, 200 and 199 give
\* not too long, not too short and too short
C25_Witness ==
    /\ pc = "scored"
    /\ "format" \in DOMAIN analysis_results
    /\ analysis_results.format.word_count = 1001
    /\ analysis_results.format.is_too_long
    /\ ~analysis_results.format.formatting_issues.has_issues
    /\ score.breakdown.format = 10
    /\ ~length_result(1000, 6000).is_too_long
    /\ ~length_result(200, 1200).is_too_short
    /\ length_result(199, 1194).is_too_short

-----------------------------------------------------------------------------
(* What the scorer and the recommendation engine leave alone               *)
(* (lines 540-640, 650-748, 804-835)                                       *)

\* Claim C26: the steps after the analyzers (scoring, recommendations,
\* return) change neither the raw text, nor the normalized text, nor any
\* analyzer output; the score and the recommendations are both functions of
\* the one analysis that the analyzers produced, and that analysis is the
\* one returned.
C26_AnalysisUnchanged ==
    /\ [][(pc \in {"compiled", "scored", "recommended"}) =>
              UNCHANGED <<raw_text, cleaned_text, analysis_results>>]_vars
    /\ [](pc \in {"scored", "recommended", "done"} =>
              /\ cleaned_text = clean_text(raw_text)
              /\ analysis_results =
                     compile_results(raw_text, cleaned_text, nlp, hashseed, today)
              /\ score = calculate_score(analysis_results))
    /\ [](pc \in {"recommended", "done"} =>
              recommendations = generate_recommendations(analysis_results))

\* an analysis with a detected section has been scored, has its
\* recommendations and has been returned
C26_Witness ==
    /\ pc = "done"
    /\ outcome = "ok"
    /\ raw_text # <<>>
    /\ analysis_results.sections["experience"]
    /\ recommendations # <<>>
    /\ result.score = score.total_score
    /\ analysis_results = compile_results(raw_text, cleaned_text, nlp, hashseed, today)

-----------------------------------------------------------------------------
(* The formatting check of analyze_resume (lines 799-802, 493-495)         *)

MissingStructure == "Manque de structure/paragraphes"

\* the analysis with the best value of every category whose format has the
\* missing-structure issue
BestWithoutStructure ==
    Mk(<<contacts_result(<<"a@b.co">>, <<"555-123-4567">>, "Tunis",
                         <<"linkedin.com/in/a">>, <<"github.com/a">>)>>,
       <<sections_result(SectionSet)>>, <<VerbsWith(0, 0, MaxCount)>>,
       <<MetricsWith(MaxCount)>>, <<FormatWith(500, <<MissingStructure>>)>>,
       <<bullets_result(2, <<12, 14>>)>>, <<FillersWith(0)>>)

\* Claim C28: every analysis made by analyze_resume reports the
\* missing-structure issue and has_issues, with or without line breaks in
\* the document; the format category of its score is at most 12 and its
\* total score at most 94.
C28_StructureAlwaysMissing ==
    /\ analysis_results # EmptyDict =>
           LET formatting_issues == analysis_results.format.formatting_issues
           IN /\ \E i \in 1..Len(formatting_issues.issues) :
                     formatting_issues.issues[i] = MissingStructure
              /\ formatting_issues.has_issues
    /\ score # EmptyDict =>
           /\ score.breakdown.format <= 12
           /\ score.total_score <= 94

\* a document of two lines with a date range: on the normalized text the
\* missing structure is the only issue; the best analysis with that issue
\* scores 94
C28_Witness ==
    /\ pc = "done"
    /\ \E i \in 2..(Len(raw_text) - 1) : raw_text[i] = "\n"
    /\ analysis_results.format.formatting_issues.issues = <<MissingStructure>>
    /\ check_formatting_issues(raw_text).issues = <<>>
    /\ score.breakdown.format = 7
    /\ calculate_score(BestWithoutStructure).total_score = 94

-----------------------------------------------------------------------------
(* The temporary copy of an upload (main.py 121-161, 191-252, 279-334)     *)

\* the handler of request i has copied the upload to its temporary path
Copied(i) == requests[i].temp_path # <<>>

\* the handler of request i has returned or raised
Finished(i) == requests[i].at \in {"responded", "downloaded"}

\* Claim C29: on each of the three endpoints, the temporary copy of a
\* request exists from its creation until the handler finishes and does
\* not exist when the handler has finished, whether it answered 200 or
\* failed at a later step.
C29_TempRemoved ==
    \A i \in RequestIds :
        Copied(i) =>
            (requests[i].temp_path \in DOMAIN files <=> ~Finished(i))

\* an analysis request that failed after its copy was made and an
\* improvement request that succeeded have both finished without their
\* copies
C29_Witness ==
    /\ requests[1].endpoint = "/api/v1/analyze"
    /\ Copied(1) /\ Finished(1) /\ requests[1].status = 500
    /\ Copied(2) /\ Finished(2) /\ requests[2].status = 200
    /\ requests[1].temp_path \notin DOMAIN files
    /\ requests[2].temp_path \notin DOMAIN files

-----------------------------------------------------------------------------
(* A LaTeX compilation that fails (resume_improver.py 629-721,             *)
(* main.py 66-73, 220-244)                                                 *)

\* save_improvements of request i ran with a compilation that returned False
CompilationFailed(i) ==
    /\ requests[i].endpoint = "/api/v1/improve"
    /\ requests[i].compiled = "failed"

\* Claim C30: when the compilation of an /api/v1/improve request fails, the
\* report, the LaTeX source and the JSON file are written all the same and
\* the request is answered with success, without a PDF URL.
C30_CompileFailureSucceeds ==
    \A i \in RequestIds :
        CompilationFailed(i) =>
            /\ \A name \in OutputNames(FALSE) :
                   OutputPath("improved", requests[i].folder, name) \in DOMAIN files
            /\ requests[i].status = 200
            /\ ~requests[i].pdf_url

=============================================================================
